---- MODULE Spec2Model ----
(***************************************************************************)
(* A model of the resilient command-execution layer of dev-toolkit:        *)
(*   - SubprocessClient.execute_command with its retry strategies and the  *)
(*     ErrorPatternDetector classification (shared_libs);                   *)
(*   - the rate-limit wrappers GHClient._retry_with_backoff (run_command,  *)
(*     run_graphql) and pr_quality_check.run_gh_command;                    *)
(*   - pr_quality_check.check_post_merge_ci_status.                         *)
(*                                                                          *)
(* Texts (stdout, stderr, check names, step names) are sequences of         *)
(* tokens; a substring or regular-expression search for a pattern is the    *)
(* search for that token.  Delays are integers, in milliseconds.            *)
(***************************************************************************)
EXTENDS Integers, Sequences, FiniteSets, TLC

VARIABLES
    \* ---- SubprocessClient.execute_command
    config,         \* the CommandConfig in force for the call
    pc,             \* position of execute_command
    attempt,        \* the loop variable of "for attempt in range(retries + 1)"
    last_result,    \* local last_result (None before the first attempt ends)
    result,         \* the returned CommandResult (None until the return)
    invocations,    \* number of subprocess.run calls made
    sleeps,         \* delays passed to time.sleep, in order
    outcomes,       \* what each subprocess.run call did, in order
    \* ---- remote client (GHClient._retry_with_backoff / run_gh_command)
    gh_mode,        \* "run_command", "run_graphql" or "run_gh_command"
    gh_retries,     \* the retry ceiling of the call
    gh_jitter,      \* GHClientConfig.jitter, in percent
    gh_pc,          \* position of the call
    gh_attempt,     \* the loop variable
    gh_total_wait,  \* local total_wait
    gh_wait_time,   \* local wait_time while the call sleeps
    gh_invocations, \* number of subprocess.run calls made
    gh_sleeps,      \* delays passed to time.sleep, in order
    gh_outcomes,    \* what each subprocess.run call did, in order
    gh_ret,         \* the returned (success, output) pair (None until the return)
    \* ---- pr_quality_check.check_post_merge_ci_status
    ci_pc,          \* position of the resolution
    ci_lines,       \* the lines of the check-run query's output
    ci_idx,         \* index of the next line the parse loop reads
    ci,             \* the locals: failed_checks, check_names, job_ids, flags, ...
    ci_job,         \* index in job_ids[:5] of the next job the descent fetches
    ci_calls,       \* the remote calls (run_gh_command) issued, in order
    ci_flags,       \* the (has_build_check, has_test_check) values taken, in order
    ci_result,      \* the returned CICheckResult (None until the return)
    \* ---- calls of ExponentialBackoffStrategy.get_delay
    bo_strategy,    \* the ExponentialBackoffStrategy instance
    bo_attempt,     \* the argument of the last get_delay call
    bo_result,      \* what that call did: a delay returned, or an exception raised
    bo_retry_args,  \* the arguments of the last should_retry call
    bo_retry,       \* what that call returned
    \* ---- ErrorPatternDetector
    det_custom,     \* _custom_patterns: the registered pattern sets, in order
    det_args,       \* the last detect_error_patterns call: its arguments and the
                    \* _custom_patterns it read
    det_info,       \* the ErrorInfo that call returned
    \* ---- GHClient.check_direct_commits
    dc_pc,          \* position of the call
    dc_max_workers, \* the max_workers argument
    dc_commits,     \* local commits: the parsed lines of the commit query
    dc_futures,     \* future_to_commit: the state of each submitted has_pr call
    dc_collected,   \* the futures the as_completed loop has taken
    dc_direct,      \* direct_commits, as indices of commits
    dc_ret,         \* the returned list (None until the return)
    dc_replies,     \* what run_command answered has_pr for each commit (None: not asked)
    \* ---- the wait of one rate-limited attempt under the default ceilings
    wt_mode,        \* "run_command", "run_graphql" or "run_gh_command"
    wt_jitter,      \* GHClientConfig.jitter, in percent
    wt_retries,     \* the retry ceiling
    wt_attempt,     \* the attempt that was rate limited
    wt_wait         \* the wait_time computed for it (None before the first)

execVars == <<config, pc, attempt, last_result, result, invocations, sleeps, outcomes>>
ghVars == <<gh_mode, gh_retries, gh_jitter, gh_pc, gh_attempt, gh_total_wait,
            gh_wait_time, gh_invocations, gh_sleeps, gh_outcomes, gh_ret>>
ciVars == <<ci_pc, ci_lines, ci_idx, ci, ci_job, ci_calls, ci_flags, ci_result>>
boVars == <<bo_strategy, bo_attempt, bo_result, bo_retry_args, bo_retry>>
detVars == <<det_custom, det_args, det_info>>
dcVars == <<dc_pc, dc_max_workers, dc_commits, dc_futures, dc_collected, dc_direct,
            dc_ret, dc_replies>>
wtVars == <<wt_mode, wt_jitter, wt_retries, wt_attempt, wt_wait>>
nonExecVars == <<ghVars, ciVars, boVars, detVars, dcVars, wtVars>>
nonGHVars == <<execVars, ciVars, boVars, detVars, dcVars, wtVars>>
nonCIVars == <<execVars, ghVars, boVars, detVars, dcVars, wtVars>>
nonBoVars == <<execVars, ghVars, ciVars, detVars, dcVars, wtVars>>
nonDetVars == <<execVars, ghVars, ciVars, boVars, dcVars, wtVars>>
nonDCVars == <<execVars, ghVars, ciVars, boVars, detVars, wtVars>>
nonWtVars == <<execVars, ghVars, ciVars, boVars, detVars, dcVars>>

None == [none |-> TRUE]

Min(a, b) == IF a < b THEN a ELSE b
Max(a, b) == IF a > b THEN a ELSE b

RECURSIVE Pow2(_)
Pow2(n) == IF n <= 0 THEN 1 ELSE 2 * Pow2(n - 1)

RECURSIVE SumSeq(_)
SumSeq(s) == IF s = <<>> THEN 0 ELSE Head(s) + SumSeq(Tail(s))

(***************************************************************************)
(* Texts.                                                                   *)
(***************************************************************************)
\* str.lower() on one token
Lower(tok) ==
    CASE tok = "Permission Denied" -> "permission denied"
      [] tok = "Rate Limit" -> "rate limit"
      [] tok = "RATE_LIMIT" -> "rate_limit"
      [] tok = "Command Not Found" -> "command not found"
      [] tok = "Timed Out" -> "timed out"
      [] tok = "Build" -> "build"
      [] tok = "Test" -> "test"
      [] tok = "Lint" -> "lint"
      [] OTHER -> tok

\* str.lower()
LowerText(t) == [i \in DOMAIN t |-> Lower(t[i])]

\* "p in t"
Contains(t, p) == \E i \in DOMAIN t : t[i] = p

\* re.search(p, t, re.IGNORECASE)
SearchIgnoreCase(p, t) == Contains(LowerText(t), Lower(p))

IsSpace(tok) == tok = "\n"

\* str.strip()
RECURSIVE LStrip(_)
LStrip(t) == IF t # <<>> /\ IsSpace(Head(t)) THEN LStrip(Tail(t)) ELSE t

RECURSIVE RStrip(_)
RStrip(t) ==
    IF t # <<>> /\ IsSpace(t[Len(t)]) THEN RStrip(SubSeq(t, 1, Len(t) - 1)) ELSE t

Strip(t) == LStrip(RStrip(t))

(***************************************************************************)
(* ErrorPatternDetector                                                     *)
(***************************************************************************)
ErrorInfo(error_type, is_error, recoverable) ==
    [error_type |-> error_type, is_error |-> is_error, recoverable |-> recoverable]

ErrorPatternSet(name, patterns, error_type, recoverable) ==
    [name |-> name, patterns |-> patterns, error_type |-> error_type,
     recoverable |-> recoverable]

\* the literal patterns of the built-in sets, in the order of the list
DefaultPatterns ==
    << ErrorPatternSet("sso-auth",
          <<"to sign in, use a web browser", "please run az login",
            "authentication required", "login required",
            "please re-run azure login", "interactive authentication is needed">>,
          "sso-required", TRUE),
       ErrorPatternSet("tls-cert",
          <<"tls: failed to verify certificate", "certificate verify failed",
            "x509: certificate", "certificate signed by unknown authority",
            "certificate has expired", "certificate is not valid",
            "ssl certificate problem">>,
          "tls-error", TRUE),
       ErrorPatternSet("network",
          <<"connection refused", "network is unreachable", "timeout",
            "connection timed out", "no route to host",
            "temporary failure in name resolution">>,
          "network-error", TRUE),
       ErrorPatternSet("permission",
          <<"forbidden", "unauthorized", "access denied", "permission denied">>,
          "permission-error", FALSE),
       ErrorPatternSet("service-not-found",
          <<"service not found", "no records found">>,
          "service-not-found", FALSE) >>

MatchesPatternSet(output, pattern_set) ==
    \E i \in DOMAIN pattern_set.patterns :
        SearchIgnoreCase(pattern_set.patterns[i], output)

\* the first pattern set of a list that matches, 0 when none does
FirstMatch(sets, output) ==
    IF \E i \in DOMAIN sets : MatchesPatternSet(output, sets[i])
    THEN CHOOSE i \in DOMAIN sets :
            /\ MatchesPatternSet(output, sets[i])
            /\ \A j \in 1..(i - 1) : ~MatchesPatternSet(output, sets[j])
    ELSE 0

DetectErrorPatternsDefaultsFirst(custom, output, return_code) ==
    LET c == FirstMatch(custom, output)
        d == FirstMatch(DefaultPatterns, output)
    IN  IF d # 0
        THEN ErrorInfo(DefaultPatterns[d].error_type, TRUE, DefaultPatterns[d].recoverable)
        ELSE IF c # 0 THEN ErrorInfo(custom[c].error_type, TRUE, custom[c].recoverable)
        ELSE IF return_code = 127 \/ Contains(LowerText(output), "command not found")
        THEN ErrorInfo("command-not-found", TRUE, FALSE)
        ELSE IF \/ return_code = 124
                \/ SearchIgnoreCase("timeout", output)
                \/ SearchIgnoreCase("timed out", output)
        THEN ErrorInfo("timeout", TRUE, TRUE)
        ELSE IF return_code # 0
        THEN ErrorInfo("generic-error", TRUE, TRUE)
        ELSE ErrorInfo("success", FALSE, TRUE)

DetectErrorPatternsTimeoutFirst(custom, output, return_code) ==
    LET c == FirstMatch(custom, output)
        d == FirstMatch(DefaultPatterns, output)
    IN  IF c # 0 THEN ErrorInfo(custom[c].error_type, TRUE, custom[c].recoverable)
        ELSE IF d # 0
        THEN ErrorInfo(DefaultPatterns[d].error_type, TRUE, DefaultPatterns[d].recoverable)
        ELSE IF \/ return_code = 124
                \/ SearchIgnoreCase("timeout", output)
                \/ SearchIgnoreCase("timed out", output)
        THEN ErrorInfo("timeout", TRUE, TRUE)
        ELSE IF return_code = 127 \/ Contains(LowerText(output), "command not found")
        THEN ErrorInfo("command-not-found", TRUE, FALSE)
        ELSE IF return_code # 0
        THEN ErrorInfo("generic-error", TRUE, TRUE)
        ELSE ErrorInfo("success", FALSE, TRUE)

\* detect_error_patterns(output, return_code) of a detector whose
\* _custom_patterns is custom
DetectErrorPatterns(custom, output, return_code) ==
    LET c == FirstMatch(custom, output)
        d == FirstMatch(DefaultPatterns, output)
    IN  IF c # 0 THEN ErrorInfo(custom[c].error_type, TRUE, custom[c].recoverable)
        ELSE IF d # 0
        THEN ErrorInfo(DefaultPatterns[d].error_type, TRUE, DefaultPatterns[d].recoverable)
        ELSE IF return_code = 127 \/ Contains(LowerText(output), "command not found")
        THEN ErrorInfo("command-not-found", TRUE, FALSE)
        ELSE IF \/ return_code = 124
                \/ SearchIgnoreCase("timeout", output)
                \/ SearchIgnoreCase("timed out", output)
        THEN ErrorInfo("timeout", TRUE, TRUE)
        ELSE IF return_code # 0
        THEN ErrorInfo("generic-error", TRUE, TRUE)
        ELSE ErrorInfo("success", FALSE, TRUE)

(***************************************************************************)
(* Retry strategies                                                         *)
(***************************************************************************)
NoStrategy == [kind |-> "none"]

ConstantDelayStrategy(delay) == [kind |-> "constant", delay |-> delay]

ExponentialBackoffStrategy(initial_delay, max_delay, jitter, retry_patterns) ==
    [kind |-> "exponential", initial_delay |-> initial_delay, max_delay |-> max_delay,
     jitter |-> jitter, retry_patterns |-> retry_patterns]

\* the points of random.uniform(-r, r) the model draws: both ends and the middle
Uniform(r) == {-r, 0, r}

BaseDelay(initial_delay, max_delay, a) == Min(initial_delay * Pow2(a), max_delay)

ExponentialDelaysUnclamped(initial_delay, max_delay, jitter, a) ==
    LET base_delay == BaseDelay(initial_delay, max_delay, a)
        jitter_range == (base_delay * jitter) \div 100
    IN  IF jitter > 0
        THEN {base_delay + jitter_value : jitter_value \in Uniform(jitter_range)}
        ELSE {base_delay}

\* the values ExponentialBackoffStrategy.get_delay(a) can return; jitter in percent
ExponentialDelays(initial_delay, max_delay, jitter, a) ==
    LET base_delay == BaseDelay(initial_delay, max_delay, a)
        jitter_range == (base_delay * jitter) \div 100
    IN  IF jitter > 0
        THEN {Max(0, base_delay + jitter_value) : jitter_value \in Uniform(jitter_range)}
        ELSE {base_delay}

\* "initial_delay * (2**attempt)" multiplies a float by an integer: the integer
\* is converted to a float first, which raises OverflowError from 2**1024 on
FloatIntLimit == 1024

GetDelayRaises(strategy, a) == strategy.kind = "exponential" /\ a >= FloatIntLimit

\* the values strategy.get_delay(a) can return
GetDelay(strategy, a) ==
    IF strategy.kind = "constant" THEN {strategy.delay}
    ELSE ExponentialDelays(strategy.initial_delay, strategy.max_delay, strategy.jitter, a)

ShouldRetryCaseSensitive(strategy, error_output, return_code) ==
    IF strategy.kind = "constant" THEN TRUE
    ELSE IF strategy.retry_patterns = <<>> THEN TRUE
    ELSE \E i \in DOMAIN strategy.retry_patterns :
            Contains(error_output, strategy.retry_patterns[i])

\* strategy.should_retry(error_output, return_code)
ShouldRetry(strategy, error_output, return_code) ==
    IF strategy.kind = "constant" THEN TRUE
    ELSE IF strategy.retry_patterns = <<>> THEN TRUE
    ELSE \E i \in DOMAIN strategy.retry_patterns :
            Contains(LowerText(error_output), Lower(strategy.retry_patterns[i]))

(***************************************************************************)
(* SubprocessClient.execute_command                                         *)
(***************************************************************************)
CommandResult(success, output, error_output, return_code, error_info) ==
    [success |-> success, output |-> output, error_output |-> error_output,
     return_code |-> return_code, error_info |-> error_info]

\* the pattern set add_simple_pattern registers for one custom_error_patterns item
SimplePattern(pattern, error_type, recoverable) ==
    ErrorPatternSet("custom", <<pattern>>, error_type, recoverable)

SuccessIgnoringErrorInfo(return_code, check_return_code, error_info) ==
    return_code = 0

SuccessIgnoringReturnCode(return_code, check_return_code, error_info) ==
    ~check_return_code \/ ~error_info.is_error

\* "success = returncode == 0 and (not check_return_code or not is_error)"
Success(return_code, check_return_code, error_info) ==
    return_code = 0 /\ (~check_return_code \/ ~error_info.is_error)

\* should_retry as execute_command consults it: only when a strategy is set
StrategyAllows(strategy, output, return_code) ==
    strategy.kind = "none" \/ ShouldRetry(strategy, output, return_code)

BreaksLoopIgnoringRecoverable(success, error_info, strategy, output, return_code) ==
    \/ success
    \/ ~StrategyAllows(strategy, output, return_code)

\* the two "break" statements after a process that exited
BreaksLoop(success, error_info, strategy, output, return_code) ==
    \/ success
    \/ ~error_info.recoverable
    \/ ~StrategyAllows(strategy, output, return_code)

RetryDelaysOfThisAttempt(cfg, a) ==
    IF cfg.retry_strategy.kind # "none"
    THEN GetDelay(cfg.retry_strategy, a)
    ELSE {cfg.retry_delay}

\* the delay slept before attempt a > 0
RetryDelays(cfg, a) ==
    IF cfg.retry_strategy.kind # "none"
    THEN GetDelay(cfg.retry_strategy, a - 1)
    ELSE {cfg.retry_delay}

ReturnValueNoFallback(last) == last

\* "return last_result or CommandResult(... no-execution ...)"
ReturnValue(last) ==
    IF last # None THEN last
    ELSE CommandResult(FALSE, <<"No execution attempted">>, <<>>, 1,
                       ErrorInfo("no-execution", TRUE, FALSE))

\* the loop goes on to its next iteration, or ends when the range is used up
\* the loop is left (break, or its range is used up) and the function returns
Break == pc' = "done" /\ attempt' = attempt /\ result' = ReturnValue(last_result')

ContinueOffByOne ==
    IF attempt < config.retries - 1
    THEN pc' = "sleep" /\ attempt' = attempt + 1 /\ result' = result
    ELSE Break

\* the loop goes on to its next iteration, if the range has one
Continue ==
    IF attempt < config.retries
    THEN pc' = "sleep" /\ attempt' = attempt + 1 /\ result' = result
    ELSE Break

\* entry: the for loop starts, or its range is empty
ExecuteCommand ==
    /\ pc = "start"
    /\ IF 0 < config.retries + 1
       THEN pc' = "spawn" /\ result' = result
       ELSE pc' = "done" /\ result' = ReturnValue(last_result)
    /\ UNCHANGED <<config, attempt, last_result, invocations, sleeps, outcomes>>
    /\ UNCHANGED nonExecVars

\* "if attempt > 0: ... time.sleep(delay)"
Sleep ==
    /\ pc = "sleep"
    /\ \E delay \in RetryDelays(config, attempt) : sleeps' = Append(sleeps, delay)
    /\ pc' = "spawn"
    /\ UNCHANGED <<config, attempt, last_result, result, invocations, outcomes>>
    /\ UNCHANGED nonExecVars

\* subprocess.run returns: the process exited with return_code
SpawnExit(return_code, stdout, stderr) ==
    /\ pc = "spawn"
    /\ \E output \in {IF config.combine_output THEN stdout \o stderr ELSE stdout} :
       \E error_info \in {DetectErrorPatterns(config.custom_error_patterns, output,
                                               return_code)} :
       \E success \in {Success(return_code, config.check_return_code, error_info)} :
       \E allowed \in {StrategyAllows(config.retry_strategy, output, return_code)} :
           /\ last_result' = CommandResult(success, output, stderr, return_code,
                                           error_info)
           /\ outcomes' = Append(outcomes,
                  [kind |-> "exit", success |-> success,
                   recoverable |-> error_info.recoverable, allowed |-> allowed])
           /\ IF BreaksLoop(success, error_info, config.retry_strategy, output,
                            return_code)
              THEN Break ELSE Continue
    /\ invocations' = invocations + 1
    /\ UNCHANGED <<config, sleeps>>
    /\ UNCHANGED nonExecVars

SpawnTimeoutNotRetried ==
    /\ pc = "spawn"
    /\ last_result' = CommandResult(FALSE, <<"Command timed out">>, <<>>, 124,
                                    ErrorInfo("timeout", TRUE, TRUE))
    /\ outcomes' = Append(outcomes, [kind |-> "timeout", success |-> FALSE,
                                      recoverable |-> TRUE, allowed |-> TRUE])
    /\ Break
    /\ invocations' = invocations + 1
    /\ UNCHANGED <<config, sleeps>>
    /\ UNCHANGED nonExecVars

\* subprocess.run raises TimeoutExpired
SpawnTimeout ==
    /\ pc = "spawn"
    /\ last_result' = CommandResult(FALSE, <<"Command timed out">>, <<>>, 124,
                                    ErrorInfo("timeout", TRUE, TRUE))
    /\ outcomes' = Append(outcomes, [kind |-> "timeout", success |-> FALSE,
                                      recoverable |-> TRUE, allowed |-> TRUE])
    /\ Continue
    /\ invocations' = invocations + 1
    /\ UNCHANGED <<config, sleeps>>
    /\ UNCHANGED nonExecVars

SpawnNotFoundRetried ==
    /\ pc = "spawn"
    /\ last_result' = CommandResult(FALSE, <<"Command not found">>, <<>>, 127,
                                    ErrorInfo("command-not-found", TRUE, FALSE))
    /\ outcomes' = Append(outcomes, [kind |-> "notfound", success |-> FALSE,
                                      recoverable |-> FALSE, allowed |-> TRUE])
    /\ Continue
    /\ invocations' = invocations + 1
    /\ UNCHANGED <<config, sleeps>>
    /\ UNCHANGED nonExecVars

\* subprocess.run raises FileNotFoundError
SpawnNotFound ==
    /\ pc = "spawn"
    /\ last_result' = CommandResult(FALSE, <<"Command not found">>, <<>>, 127,
                                    ErrorInfo("command-not-found", TRUE, FALSE))
    /\ outcomes' = Append(outcomes, [kind |-> "notfound", success |-> FALSE,
                                      recoverable |-> FALSE, allowed |-> TRUE])
    /\ Break
    /\ invocations' = invocations + 1
    /\ UNCHANGED <<config, sleeps>>
    /\ UNCHANGED nonExecVars

SpawnExceptionNotRetried ==
    /\ pc = "spawn"
    /\ last_result' = CommandResult(FALSE, <<"Execution error">>, <<>>, 1,
                                    ErrorInfo("execution-error", TRUE, TRUE))
    /\ outcomes' = Append(outcomes, [kind |-> "exception", success |-> FALSE,
                                      recoverable |-> TRUE, allowed |-> TRUE])
    /\ Break
    /\ invocations' = invocations + 1
    /\ UNCHANGED <<config, sleeps>>
    /\ UNCHANGED nonExecVars

\* subprocess.run (or the classification after it) raises any other Exception
SpawnException ==
    /\ pc = "spawn"
    /\ last_result' = CommandResult(FALSE, <<"Execution error">>, <<>>, 1,
                                    ErrorInfo("execution-error", TRUE, TRUE))
    /\ outcomes' = Append(outcomes, [kind |-> "exception", success |-> FALSE,
                                      recoverable |-> TRUE, allowed |-> TRUE])
    /\ Continue
    /\ invocations' = invocations + 1
    /\ UNCHANGED <<config, sleeps>>
    /\ UNCHANGED nonExecVars

\* ---- the configurations and process outputs the model draws
MaxRetries == 2

DefaultRetryDelay == 1000
DefaultInitialDelay == 2000
DefaultMaxDelay == 300000
DefaultJitter == 10

Strategies ==
    { NoStrategy,
      ConstantDelayStrategy(DefaultRetryDelay),
      ExponentialBackoffStrategy(DefaultInitialDelay, DefaultMaxDelay, DefaultJitter, <<>>),
      ExponentialBackoffStrategy(DefaultInitialDelay, DefaultMaxDelay, 0, <<"Rate Limit">>) }

CustomPatterns == { <<>>, <<SimplePattern("quota exceeded", "quota", FALSE)>> }

Configs ==
    [ retries : -1..MaxRetries,
      retry_delay : {DefaultRetryDelay},
      combine_output : BOOLEAN,
      check_return_code : BOOLEAN,
      custom_error_patterns : CustomPatterns,
      retry_strategy : Strategies ]

ReturnCodes == {0, 1, 124, 127}
Stdouts == { <<>>, <<"Permission Denied">> }
Stderrs == { <<>>, <<"rate limit">>, <<"quota exceeded">>, <<"Timed Out">> }

ExecInit ==
    /\ config \in Configs
    /\ pc = "start"
    /\ attempt = 0
    /\ last_result = None
    /\ result = None
    /\ invocations = 0
    /\ sleeps = <<>>
    /\ outcomes = <<>>

ExecNext ==
    \/ ExecuteCommand
    \/ Sleep
    \/ \E return_code \in ReturnCodes, stdout \in Stdouts, stderr \in Stderrs :
          SpawnExit(return_code, stdout, stderr)
    \/ SpawnTimeout
    \/ SpawnNotFound
    \/ SpawnException

(***************************************************************************)
(* The remote client: GHClient._retry_with_backoff, called by run_command   *)
(* and run_graphql, and its copy pr_quality_check.run_gh_command            *)
(***************************************************************************)
GHInitialDelay == 2000
GHMaxDelay == 300000
GHJitter == 10
MaxWaitPerRetry == 300

GHClientModes == {"run_command", "run_graphql"}

\* the arguments run_command and run_graphql pass to _retry_with_backoff
CheckStdoutForRateLimit(mode) == mode = "run_graphql"
ReturnStdoutOnError(mode) == mode = "run_graphql"
RateLimitExhaustedOutput(mode) == <<>>

\* a returned output: a text of the process, or one of the messages
OutText(text) == [kind |-> "text", text |-> text]
OutMessage(kind) == [kind |-> kind]
OutExhausted(stderr, retries, reported) ==
    [kind |-> "rate-limit-exceeded", stderr |-> stderr, retries |-> retries,
     reported |-> reported]

\* GHClient._format_duration, of a duration in milliseconds
FormatDuration(ms) ==
    [hours |-> ms \div 3600000, mins |-> (ms % 3600000) \div 60000,
     secs |-> (ms % 60000) \div 1000]

\* run_gh_command's "mins = total_wait // 60"
FormatMinutes(ms) == [mins |-> ms \div 60000]

CalculateDelayHalving(jitter, a) ==
    LET base_delay == Min(GHInitialDelay \div Pow2(a), GHMaxDelay)
        jitter_range == (base_delay * jitter) \div 100
    IN  IF jitter > 0
        THEN {Max(0, base_delay + jitter_value) : jitter_value \in Uniform(jitter_range)}
        ELSE {base_delay}

\* GHClient._calculate_delay: the values it can return; the product is not
\* formed once 2^a alone passes max_delay / initial_delay, where the minimum is
\* max_delay
CalculateDelay(jitter, a) ==
    LET base_delay == IF Pow2(a) > GHMaxDelay \div GHInitialDelay
                      THEN GHMaxDelay
                      ELSE Min(GHInitialDelay * Pow2(a), GHMaxDelay)
        jitter_range == (base_delay * jitter) \div 100
    IN  IF jitter > 0
        THEN {Max(0, base_delay + jitter_value) : jitter_value \in Uniform(jitter_range)}
        ELSE {base_delay}

WaitTimeFromOne(a) == {Min(Pow2(a), MaxWaitPerRetry) * 1000}

\* run_gh_command's "wait_time = min(2 ** (attempt + 1), max_wait_per_retry)"
WaitTime(a) == {Min(Pow2(a + 1), MaxWaitPerRetry) * 1000}

WaitTimes(mode, jitter, a) ==
    IF mode \in GHClientModes THEN CalculateDelay(jitter, a) ELSE WaitTime(a)

IsRateLimitedAnyFailure(mode, stdout, stderr) == TRUE

IsRateLimitedEitherStream(mode, stdout, stderr) ==
    \/ Contains(LowerText(stderr), "rate limit")
    \/ Contains(LowerText(stdout), "rate limit")
    \/ Contains(LowerText(stdout), "rate_limit")

\* the rate-limit detection on the stripped texts of a failed invocation
IsRateLimited(mode, stdout, stderr) ==
    \/ Contains(LowerText(stderr), "rate limit")
    \/ /\ mode \in GHClientModes
       /\ CheckStdoutForRateLimit(mode)
       /\ Contains(LowerText(stdout), "rate_limit")

RetriesLeftOffByOne(a, retries) == a < retries

\* "if attempt < retries - 1": a rate-limited attempt is retried
RetriesLeft(a, retries) == a < retries - 1

ExhaustedReturnCountingFinalWait(mode, stderr, retries, total_wait) ==
    IF mode \in GHClientModes
    THEN [success |-> FALSE,
          output |-> OutExhausted(stderr, retries,
                                  FormatDuration(total_wait + GHInitialDelay))]
    ELSE [success |-> FALSE,
          output |-> OutExhausted(stderr, retries,
                                  FormatMinutes(total_wait + GHMaxDelay))]

\* what is returned when the last allowed attempt is rate limited
ExhaustedReturn(mode, stderr, retries, total_wait) ==
    IF mode \in GHClientModes
    THEN IF RateLimitExhaustedOutput(mode) # <<>>
         THEN [success |-> FALSE, output |-> OutText(RateLimitExhaustedOutput(mode))]
         ELSE [success |-> FALSE,
               output |-> OutExhausted(stderr, retries, FormatDuration(total_wait))]
    ELSE [success |-> FALSE,
          output |-> OutExhausted(stderr, retries, FormatMinutes(total_wait))]

\* what is returned after a failure that is not rate limiting
ErrorReturn(mode, stdout, stderr) ==
    IF mode \in GHClientModes /\ ReturnStdoutOnError(mode)
    THEN [success |-> FALSE, output |-> OutText(stdout)]
    ELSE [success |-> FALSE, output |-> OutText(stderr)]

\* entry: the for loop starts, or its range is empty
GHCall ==
    /\ gh_pc = "start"
    /\ IF 0 < gh_retries
       THEN gh_pc' = "spawn" /\ gh_ret' = gh_ret
       ELSE /\ gh_pc' = "done"
            /\ gh_ret' = [success |-> FALSE, output |-> OutMessage("Max retries exceeded")]
    /\ UNCHANGED <<gh_mode, gh_retries, gh_jitter, gh_attempt, gh_total_wait,
                   gh_wait_time, gh_invocations, gh_sleeps, gh_outcomes>>
    /\ UNCHANGED nonGHVars

\* subprocess.run returns: the gh process exited
GHExit(return_code, out, err) ==
    /\ gh_pc = "spawn"
    /\ gh_invocations' = gh_invocations + 1
    /\ gh_outcomes' = Append(gh_outcomes, [kind |-> "exit", return_code |-> return_code,
                                            stdout |-> out, stderr |-> err])
    /\ \E stdout \in {Strip(out)} : \E stderr \in {Strip(err)} :
        IF return_code = 0
        THEN /\ gh_ret' = [success |-> TRUE, output |-> OutText(stdout)]
             /\ gh_pc' = "done"
             /\ UNCHANGED <<gh_total_wait, gh_wait_time>>
        ELSE IF IsRateLimited(gh_mode, stdout, stderr)
        THEN IF RetriesLeft(gh_attempt, gh_retries)
             THEN /\ \E wait_time \in WaitTimes(gh_mode, gh_jitter, gh_attempt) :
                        /\ gh_wait_time' = wait_time
                        /\ gh_total_wait' = gh_total_wait + wait_time
                  /\ gh_pc' = "sleep"
                  /\ gh_ret' = gh_ret
             ELSE /\ gh_ret' = ExhaustedReturn(gh_mode, stderr, gh_retries, gh_total_wait)
                  /\ gh_pc' = "done"
                  /\ UNCHANGED <<gh_total_wait, gh_wait_time>>
        ELSE /\ gh_ret' = ErrorReturn(gh_mode, stdout, stderr)
             /\ gh_pc' = "done"
             /\ UNCHANGED <<gh_total_wait, gh_wait_time>>
    /\ UNCHANGED <<gh_mode, gh_retries, gh_jitter, gh_attempt, gh_sleeps>>
    /\ UNCHANGED nonGHVars

\* "time.sleep(wait_time); continue"
GHSleep ==
    /\ gh_pc = "sleep"
    /\ gh_sleeps' = Append(gh_sleeps, gh_wait_time)
    /\ IF gh_attempt + 1 < gh_retries
       THEN gh_attempt' = gh_attempt + 1 /\ gh_pc' = "spawn" /\ gh_ret' = gh_ret
       ELSE /\ gh_attempt' = gh_attempt
            /\ gh_pc' = "done"
            /\ gh_ret' = [success |-> FALSE, output |-> OutMessage("Max retries exceeded")]
    /\ UNCHANGED <<gh_mode, gh_retries, gh_jitter, gh_total_wait, gh_wait_time,
                   gh_invocations, gh_outcomes>>
    /\ UNCHANGED nonGHVars

\* subprocess.run raises FileNotFoundError
GHNotFound ==
    /\ gh_pc = "spawn"
    /\ gh_invocations' = gh_invocations + 1
    /\ gh_outcomes' = Append(gh_outcomes, [kind |-> "notfound"])
    /\ gh_ret' = IF gh_mode \in GHClientModes /\ ReturnStdoutOnError(gh_mode)
                 THEN [success |-> FALSE, output |-> OutText(<<>>)]
                 ELSE [success |-> FALSE, output |-> OutMessage("gh CLI not found")]
    /\ gh_pc' = "done"
    /\ UNCHANGED <<gh_mode, gh_retries, gh_jitter, gh_attempt, gh_total_wait,
                   gh_wait_time, gh_sleeps>>
    /\ UNCHANGED nonGHVars

\* the gh process never exits: run_gh_command's timeout=60 raises TimeoutExpired,
\* GHClient's subprocess.run has no timeout and does not return
GHHang ==
    /\ gh_pc = "spawn"
    /\ gh_invocations' = gh_invocations + 1
    /\ gh_outcomes' = Append(gh_outcomes, [kind |-> "hang"])
    /\ IF gh_mode \in GHClientModes
       THEN gh_pc' = "blocked" /\ gh_ret' = gh_ret
       ELSE /\ gh_pc' = "done"
            /\ gh_ret' = [success |-> FALSE, output |-> OutMessage("Command timed out")]
    /\ UNCHANGED <<gh_mode, gh_retries, gh_jitter, gh_attempt, gh_total_wait,
                   gh_wait_time, gh_sleeps>>
    /\ UNCHANGED nonGHVars

\* ---- the calls and process outputs the model draws
MaxCeiling == 3

GHReturnCodes == {0, 1}
GHStdouts == { <<>>, <<"data", "\n">>, <<"RATE_LIMIT">>, <<"Rate Limit">> }
GHStderrs == { <<>>, <<"rate limit">>, <<"Rate Limit", "\n">>, <<"HTTP 404">> }

GHInit ==
    /\ gh_mode \in GHClientModes \cup {"run_gh_command"}
    /\ gh_retries \in 0..MaxCeiling
    /\ gh_jitter \in IF gh_mode \in GHClientModes THEN {0, GHJitter} ELSE {0}
    /\ gh_pc = "start"
    /\ gh_attempt = 0
    /\ gh_total_wait = 0
    /\ gh_wait_time = 0
    /\ gh_invocations = 0
    /\ gh_sleeps = <<>>
    /\ gh_outcomes = <<>>
    /\ gh_ret = None

GHNext ==
    \/ GHCall
    \/ \E return_code \in GHReturnCodes, out \in GHStdouts, err \in GHStderrs :
          GHExit(return_code, out, err)
    \/ GHSleep
    \/ GHNotFound
    \/ GHHang

ExecIdle ==
    /\ config = [retries |-> 0, retry_delay |-> DefaultRetryDelay,
                 combine_output |-> TRUE, check_return_code |-> TRUE,
                 custom_error_patterns |-> <<>>, retry_strategy |-> NoStrategy]
    /\ pc = "idle"
    /\ attempt = 0
    /\ last_result = None
    /\ result = None
    /\ invocations = 0
    /\ sleeps = <<>>
    /\ outcomes = <<>>

(***************************************************************************)
(* pr_quality_check.check_post_merge_ci_status                              *)
(***************************************************************************)
BUILD_CHECK_PATTERNS ==
    <<"build", "compile", "make", "gradle", "maven", "cargo", "npm run build",
      "yarn build", "webpack", "tsc", "javac", "gcc", "cmake", "bazel">>

TEST_CHECK_PATTERNS ==
    <<"test", "spec", "jest", "pytest", "junit", "mocha", "karma", "cypress",
      "selenium", "unittest", "rspec", "minitest", "coverage", "e2e">>

\* "any(pattern in name_lower for pattern in patterns)"
AnyPatternIn(patterns, name_lower) ==
    \E i \in DOMAIN patterns : Contains(name_lower, patterns[i])

\* JSON values of a field: absent, null, a string (or text), a number
Missing == [t |-> "missing"]
Null == [t |-> "null"]
Str(v) == [t |-> "str", v |-> v]
Num(n) == [t |-> "num", v |-> n]

\* dict.get(key, default)
Get(value, default) == IF value = Missing THEN default ELSE value

\* the truth value Python gives the value of a field
Truthy(value) ==
    CASE value.t = "num" -> value.v # 0
      [] value.t = "str" -> value.v # "" /\ value.v # <<>>
      [] OTHER -> FALSE

\* the id of a check-run the model numbers by its line
LineId == [t |-> "line"]

NoEvidence == [level |-> "none"]
Evidence(level, name) == [level |-> level, name |-> name]

CICheckResult(status, failed, urls, names, has_build, has_test, build_ev, test_ev) ==
    [status |-> status, failed_checks |-> failed, failed_check_urls |-> urls,
     check_names |-> names, has_build_check |-> has_build,
     has_test_check |-> has_test, build_evidence |-> build_ev,
     test_evidence |-> test_ev]

\* CICheckResult(status=...), every other field at its default
StatusOnly(status) ==
    CICheckResult(status, <<>>, <<>>, <<>>, FALSE, FALSE, NoEvidence, NoEvidence)

FailedConclusionsWithoutCancelled == {"failure", "timed_out", "action_required"}

FailedConclusionsWithNeutral ==
    {"failure", "cancelled", "timed_out", "action_required", "neutral"}

FailedConclusions == {"failure", "cancelled", "timed_out", "action_required"}

\* the locals of check_post_merge_ci_status before the parse loop
InitialLocals ==
    [failed_checks |-> <<>>, failed_check_urls |-> <<>>, check_names |-> <<>>,
     job_ids |-> <<>>, has_pending |-> FALSE, has_checks |-> FALSE,
     has_build_check |-> FALSE, has_test_check |-> FALSE,
     build_evidence |-> NoEvidence, test_evidence |-> NoEvidence]

\* the body of the parse loop for a line that is a JSON object; the id of the
\* check-run of line n is n when it has one
ParseCheck(c, check, n) ==
    LET check_name == Get(check.name, Str(<<"unknown check">>)).v
        check_id == IF check.id = LineId THEN Num(n) ELSE check.id
        check_name_lower == LowerText(check_name)
        build == ~c.has_build_check /\ AnyPatternIn(BUILD_CHECK_PATTERNS, check_name_lower)
        test == ~c.has_test_check /\ AnyPatternIn(TEST_CHECK_PATTERNS, check_name_lower)
        pending == check.status # Str("completed")
        conclusion == Get(check.conclusion, Str(""))
        failed == ~pending /\ conclusion.t = "str" /\ conclusion.v \in FailedConclusions
    IN  [c EXCEPT
            !.has_checks = TRUE,
            !.check_names = Append(@, check_name),
            !.job_ids = IF Truthy(check_id) THEN Append(@, check_id.v) ELSE @,
            !.has_build_check = @ \/ build,
            !.build_evidence = IF build THEN Evidence("job", check_name) ELSE @,
            !.has_test_check = @ \/ test,
            !.test_evidence = IF test THEN Evidence("job", check_name) ELSE @,
            !.has_pending = @ \/ pending,
            !.failed_checks = IF failed THEN Append(@, check_name) ELSE @,
            !.failed_check_urls =
                IF failed THEN Append(@, Get(check.html_url, Str(""))) ELSE @]

\* the index of the first step whose name holds one of the patterns, 0 if none
FirstStep(steps, patterns) ==
    IF \E i \in DOMAIN steps : AnyPatternIn(patterns, LowerText(steps[i]))
    THEN CHOOSE i \in DOMAIN steps :
            /\ AnyPatternIn(patterns, LowerText(steps[i]))
            /\ \A j \in 1..(i - 1) : ~AnyPatternIn(patterns, LowerText(steps[j]))
    ELSE 0

\* get_job_steps: no step when the call fails
GetJobSteps(ok, steps) == IF ok THEN steps ELSE <<>>

\* check_steps_for_build_test, on the steps get_job_steps returned
CheckStepsForBuildTest(steps) ==
    LET b == FirstStep(steps, BUILD_CHECK_PATTERNS)
        t == FirstStep(steps, TEST_CHECK_PATTERNS)
    IN  [has_build |-> b # 0, has_test |-> t # 0,
         build_evidence |-> IF b # 0 THEN Evidence("step", steps[b]) ELSE NoEvidence,
         test_evidence |-> IF t # 0 THEN Evidence("step", steps[t]) ELSE NoEvidence]

\* "job_ids[:5]"
StepLookupLimit == 5

FirstJobsUnlimited(job_ids) == job_ids

FirstJobs(job_ids) == SubSeq(job_ids, 1, Min(Len(job_ids), StepLookupLimit))

ResolveFailureFirst(c) ==
    IF c.failed_checks # <<>>
    THEN CICheckResult("failure", c.failed_checks, c.failed_check_urls, c.check_names,
                       c.has_build_check, c.has_test_check, c.build_evidence,
                       c.test_evidence)
    ELSE IF c.has_pending
    THEN CICheckResult("pending", <<>>, <<>>, c.check_names, c.has_build_check,
                       c.has_test_check, c.build_evidence, c.test_evidence)
    ELSE CICheckResult("success", <<>>, <<>>, c.check_names, c.has_build_check,
                       c.has_test_check, c.build_evidence, c.test_evidence)

\* the three final returns: pending, then failure, then success
Resolve(c) ==
    IF c.has_pending
    THEN CICheckResult("pending", <<>>, <<>>, c.check_names, c.has_build_check,
                       c.has_test_check, c.build_evidence, c.test_evidence)
    ELSE IF c.failed_checks # <<>>
    THEN CICheckResult("failure", c.failed_checks, c.failed_check_urls, c.check_names,
                       c.has_build_check, c.has_test_check, c.build_evidence,
                       c.test_evidence)
    ELSE CICheckResult("success", <<>>, <<>>, c.check_names, c.has_build_check,
                       c.has_test_check, c.build_evidence, c.test_evidence)

CIReturn(r) == ci_pc' = "done" /\ ci_result' = r

Flags(c) == <<c.has_build_check, c.has_test_check>>

CIPRViewWithoutOidCheck(ok, output) ==
    /\ ci_pc = "start"
    /\ ci_calls' = Append(ci_calls, [query |-> "pr_view", ok |-> ok, output |-> output])
    /\ IF ~ok THEN CIReturn(StatusOnly("unknown"))
       ELSE IF output = "not_object" THEN ci_pc' = "raised" /\ ci_result' = ci_result
       ELSE IF output \in {"oid", "no_oid"}
       THEN ci_pc' = "check_runs" /\ ci_result' = ci_result
       ELSE CIReturn(StatusOnly("unknown"))
    /\ UNCHANGED <<ci_lines, ci_idx, ci, ci_job, ci_flags>>
    /\ UNCHANGED nonCIVars

\* the PR metadata query and the extraction of the merge commit
CIPRView(ok, output) ==
    /\ ci_pc = "start"
    /\ ci_calls' = Append(ci_calls, [query |-> "pr_view", ok |-> ok, output |-> output])
    /\ IF ~ok THEN CIReturn(StatusOnly("unknown"))
       ELSE IF output = "not_object" THEN ci_pc' = "raised" /\ ci_result' = ci_result
       ELSE IF output = "oid" THEN ci_pc' = "check_runs" /\ ci_result' = ci_result
       ELSE CIReturn(StatusOnly("unknown"))
    /\ UNCHANGED <<ci_lines, ci_idx, ci, ci_job, ci_flags>>
    /\ UNCHANGED nonCIVars

\* the check-run query
CICheckRuns(ok, lines) ==
    /\ ci_pc = "check_runs"
    /\ ci_calls' = Append(ci_calls, [query |-> "check_runs", ok |-> ok])
    /\ IF ~ok
       THEN CIReturn(StatusOnly("unknown")) /\ UNCHANGED <<ci_lines, ci_idx>>
       ELSE /\ ci_lines' = lines
            /\ ci_idx' = 1
            /\ ci_pc' = "parse"
            /\ ci_result' = ci_result
    /\ UNCHANGED <<ci, ci_job, ci_flags>>
    /\ UNCHANGED nonCIVars

\* one iteration of "for line in output.strip().split(...)"
CIParseLine ==
    /\ ci_pc = "parse"
    /\ ci_idx <= Len(ci_lines)
    /\ LET line == ci_lines[ci_idx]
       IN  CASE line.kind \in {"blank", "not_json"} ->
                    /\ ci' = ci
                    /\ ci_pc' = ci_pc
                    /\ ci_flags' = ci_flags
             [] line.kind = "not_object" ->
                    /\ ci' = [ci EXCEPT !.has_checks = TRUE]
                    /\ ci_pc' = "raised"
                    /\ ci_flags' = ci_flags
             [] line.kind = "check" /\ line.name = Null ->
                    /\ ci' = [ci EXCEPT !.has_checks = TRUE,
                                        !.check_names = Append(@, Null)]
                    /\ ci_pc' = "raised"
                    /\ ci_flags' = ci_flags
             [] OTHER ->
                    /\ ci' = ParseCheck(ci, line, ci_idx)
                    /\ ci_pc' = ci_pc
                    /\ ci_flags' = Append(ci_flags, Flags(ci'))
    /\ ci_idx' = ci_idx + 1
    /\ UNCHANGED <<ci_lines, ci_job, ci_calls, ci_result>>
    /\ UNCHANGED nonCIVars

CIAfterParseWithoutNoCI ==
    /\ ci_pc = "parse"
    /\ ci_idx > Len(ci_lines)
    /\ IF (~ci.has_build_check \/ ~ci.has_test_check) /\ ci.job_ids # <<>>
       THEN ci_pc' = "steps" /\ ci_job' = 1 /\ ci_result' = ci_result
       ELSE CIReturn(Resolve(ci)) /\ ci_job' = ci_job
    /\ UNCHANGED <<ci_lines, ci_idx, ci, ci_calls, ci_flags>>
    /\ UNCHANGED nonCIVars

\* after the parse loop: no_ci, or the descent into the steps, or the final returns
CIAfterParse ==
    /\ ci_pc = "parse"
    /\ ci_idx > Len(ci_lines)
    /\ IF ~ci.has_checks
       THEN CIReturn(StatusOnly("no_ci")) /\ ci_job' = ci_job
       ELSE IF (~ci.has_build_check \/ ~ci.has_test_check) /\ ci.job_ids # <<>>
       THEN ci_pc' = "steps" /\ ci_job' = 1 /\ ci_result' = ci_result
       ELSE CIReturn(Resolve(ci)) /\ ci_job' = ci_job
    /\ UNCHANGED <<ci_lines, ci_idx, ci, ci_calls, ci_flags>>
    /\ UNCHANGED nonCIVars

CIStepLookupOverwritesEvidence(ok, steps) ==
    /\ ci_pc = "steps"
    /\ ci_calls' = Append(ci_calls, [query |-> "job_steps",
                                      job_id |-> FirstJobs(ci.job_ids)[ci_job]])
    /\ LET s == CheckStepsForBuildTest(GetJobSteps(ok, steps))
           build == s.has_build
           test == s.has_test
       IN  ci' = [ci EXCEPT
                    !.has_build_check = @ \/ build,
                    !.build_evidence = IF build THEN s.build_evidence ELSE @,
                    !.has_test_check = @ \/ test,
                    !.test_evidence = IF test THEN s.test_evidence ELSE @]
    /\ ci_flags' = Append(ci_flags, Flags(ci'))
    /\ IF ci_job < Len(FirstJobs(ci.job_ids))
          /\ ~(ci'.has_build_check /\ ci'.has_test_check)
       THEN ci_job' = ci_job + 1 /\ ci_pc' = ci_pc /\ ci_result' = ci_result
       ELSE ci_job' = ci_job /\ CIReturn(Resolve(ci'))
    /\ UNCHANGED <<ci_lines, ci_idx>>
    /\ UNCHANGED nonCIVars

CIStepLookupWithoutBreak(ok, steps) ==
    /\ ci_pc = "steps"
    /\ ci_calls' = Append(ci_calls, [query |-> "job_steps",
                                      job_id |-> FirstJobs(ci.job_ids)[ci_job]])
    /\ LET s == CheckStepsForBuildTest(GetJobSteps(ok, steps))
           build == ~ci.has_build_check /\ s.has_build
           test == ~ci.has_test_check /\ s.has_test
       IN  ci' = [ci EXCEPT
                    !.has_build_check = @ \/ build,
                    !.build_evidence = IF build THEN s.build_evidence ELSE @,
                    !.has_test_check = @ \/ test,
                    !.test_evidence = IF test THEN s.test_evidence ELSE @]
    /\ ci_flags' = Append(ci_flags, Flags(ci'))
    /\ IF ci_job < Len(FirstJobs(ci.job_ids))
       THEN ci_job' = ci_job + 1 /\ ci_pc' = ci_pc /\ ci_result' = ci_result
       ELSE ci_job' = ci_job /\ CIReturn(Resolve(ci'))
    /\ UNCHANGED <<ci_lines, ci_idx>>
    /\ UNCHANGED nonCIVars

CIStepLookupFailureIsUnknown(ok, steps) ==
    /\ ci_pc = "steps"
    /\ ci_calls' = Append(ci_calls, [query |-> "job_steps",
                                      job_id |-> FirstJobs(ci.job_ids)[ci_job]])
    /\ LET s == CheckStepsForBuildTest(GetJobSteps(ok, steps))
           build == ~ci.has_build_check /\ s.has_build
           test == ~ci.has_test_check /\ s.has_test
       IN  ci' = [ci EXCEPT
                    !.has_build_check = @ \/ build,
                    !.build_evidence = IF build THEN s.build_evidence ELSE @,
                    !.has_test_check = @ \/ test,
                    !.test_evidence = IF test THEN s.test_evidence ELSE @]
    /\ ci_flags' = Append(ci_flags, Flags(ci'))
    /\ IF ~ok
       THEN ci_job' = ci_job /\ CIReturn(StatusOnly("unknown"))
       ELSE IF ci_job < Len(FirstJobs(ci.job_ids))
               /\ ~(ci'.has_build_check /\ ci'.has_test_check)
       THEN ci_job' = ci_job + 1 /\ ci_pc' = ci_pc /\ ci_result' = ci_result
       ELSE ci_job' = ci_job /\ CIReturn(Resolve(ci'))
    /\ UNCHANGED <<ci_lines, ci_idx>>
    /\ UNCHANGED nonCIVars

\* one iteration of "for job_id in job_ids[:5]", then the final returns when the
\* loop ends or breaks
CIStepLookup(ok, steps) ==
    /\ ci_pc = "steps"
    /\ ci_calls' = Append(ci_calls, [query |-> "job_steps",
                                      job_id |-> FirstJobs(ci.job_ids)[ci_job]])
    /\ LET s == CheckStepsForBuildTest(GetJobSteps(ok, steps))
           build == ~ci.has_build_check /\ s.has_build
           test == ~ci.has_test_check /\ s.has_test
       IN  ci' = [ci EXCEPT
                    !.has_build_check = @ \/ build,
                    !.build_evidence = IF build THEN s.build_evidence ELSE @,
                    !.has_test_check = @ \/ test,
                    !.test_evidence = IF test THEN s.test_evidence ELSE @]
    /\ ci_flags' = Append(ci_flags, Flags(ci'))
    /\ IF ci_job < Len(FirstJobs(ci.job_ids))
          /\ ~(ci'.has_build_check /\ ci'.has_test_check)
       THEN ci_job' = ci_job + 1 /\ ci_pc' = ci_pc /\ ci_result' = ci_result
       ELSE ci_job' = ci_job /\ CIReturn(Resolve(ci'))
    /\ UNCHANGED <<ci_lines, ci_idx>>
    /\ UNCHANGED nonCIVars

\* ---- the remote responses the model draws
MaxChecks == 3

PRViewOutputs ==
    {"not_json", "not_object", "no_merge_commit", "null_merge_commit", "no_oid", "oid"}

CheckRun(name, id, status, conclusion, html_url) ==
    [kind |-> "check", name |-> name, id |-> id, status |-> status,
     conclusion |-> conclusion, html_url |-> html_url]

LineSamples ==
    { [kind |-> "blank"], [kind |-> "not_json"], [kind |-> "not_object"],
      CheckRun(Str(<<"Build">>), LineId, Str("completed"), Str("success"), Str("url")),
      CheckRun(Str(<<"Test">>), LineId, Str("completed"), Str("failure"), Str("url")),
      CheckRun(Str(<<"Lint">>), LineId, Str("in_progress"), Null, Str("url")),
      CheckRun(Str(<<"Lint">>), LineId, Str("completed"), Str("cancelled"), Str("url")),
      CheckRun(Str(<<"docs">>), Null, Str("completed"), Str("timed_out"), Null),
      CheckRun(Missing, LineId, Str("completed"), Str("action_required"), Missing),
      CheckRun(Str(<<"docs">>), LineId, Str("completed"), Str("neutral"), Str("url")),
      CheckRun(Str(<<"Lint">>), LineId, Str("completed"), Null, Str("url")),
      CheckRun(Str(<<"Build", "Test">>), Num(0), Null, Str("failure"), Str("url")),
      CheckRun(Null, LineId, Str("completed"), Str("success"), Str("url")) }

RECURSIVE SeqsUpTo(_, _)
SeqsUpTo(S, n) ==
    IF n = 0 THEN {<<>>}
    ELSE LET shorter == SeqsUpTo(S, n - 1)
         IN  shorter \cup {Append(q, x) : q \in shorter, x \in S}

CheckRunOutputs == SeqsUpTo(LineSamples, MaxChecks)

StepSamples ==
    { <<<<"Checkout">>>>, <<<<"Checkout">>, <<"Build">>>>,
      <<<<"Test">>, <<"Run", "Test">>>>,
      <<<<"Run", "Build">>, <<"Run", "Test">>>> }

CIInit ==
    /\ ci_pc = "start"
    /\ ci_lines = <<>>
    /\ ci_idx = 0
    /\ ci = InitialLocals
    /\ ci_job = 0
    /\ ci_calls = <<>>
    /\ ci_flags = <<>>
    /\ ci_result = None

\* the check-run query, with each response the model draws
CIFetchCheckRuns ==
    /\ ci_pc = "check_runs"
    /\ \E ok \in BOOLEAN, lines \in CheckRunOutputs : CICheckRuns(ok, lines)

\* the step query of one job: it fails, or it succeeds with some step names
CIFetchSteps ==
    /\ ci_pc = "steps"
    /\ \/ CIStepLookup(FALSE, <<>>)
       \/ \E steps \in StepSamples : CIStepLookup(TRUE, steps)

CINext ==
    \/ \E ok \in BOOLEAN, output \in PRViewOutputs : CIPRView(ok, output)
    \/ CIFetchCheckRuns
    \/ CIParseLine
    \/ CIAfterParse
    \/ CIFetchSteps

CIIdle ==
    /\ ci_pc = "idle"
    /\ ci_lines = <<>>
    /\ ci_idx = 0
    /\ ci = InitialLocals
    /\ ci_job = 0
    /\ ci_calls = <<>>
    /\ ci_flags = <<>>
    /\ ci_result = None

GHIdle ==
    /\ gh_mode = "run_command"
    /\ gh_retries = 0
    /\ gh_jitter = 0
    /\ gh_pc = "idle"
    /\ gh_attempt = 0
    /\ gh_total_wait = 0
    /\ gh_wait_time = 0
    /\ gh_invocations = 0
    /\ gh_sleeps = <<>>
    /\ gh_outcomes = <<>>
    /\ gh_ret = None

(***************************************************************************)
(* Calls of ExponentialBackoffStrategy.get_delay on one instance.            *)
(***************************************************************************)
MaxAttempt == 8

RetryPatternLists == { <<"Rate Limit">>, <<"quota exceeded", "rate_limit">> }

BackoffStrategies ==
    { ExponentialBackoffStrategy(initial_delay, max_delay, jitter, <<>>) :
        initial_delay \in {1000, DefaultInitialDelay, 3000},
        max_delay \in {DefaultInitialDelay, DefaultMaxDelay},
        jitter \in {0, DefaultJitter, 100, 150} }
    \cup
    { ExponentialBackoffStrategy(DefaultInitialDelay, DefaultMaxDelay, DefaultJitter,
                                 retry_patterns) :
        retry_patterns \in RetryPatternLists }

ErrorOutputs ==
    { <<>>, <<"rate limit">>, <<"Permission Denied", "RATE_LIMIT">>, <<"Timed Out">> }

RetryReturnCodes == {0, 1}

Attempts == 0..MaxAttempt \cup {FloatIntLimit}

BoInit ==
    /\ bo_strategy \in BackoffStrategies
    /\ bo_attempt = 0
    /\ bo_result = None
    /\ bo_retry_args = None
    /\ bo_retry = None

BoIdle ==
    /\ bo_strategy = NoStrategy
    /\ bo_attempt = 0
    /\ bo_result = None
    /\ bo_retry_args = None
    /\ bo_retry = None

\* strategy.get_delay(a)
GetDelayCall(a) ==
    /\ bo_attempt' = a
    /\ IF GetDelayRaises(bo_strategy, a)
       THEN bo_result' = [raised |-> "OverflowError"]
       ELSE \E delay \in GetDelay(bo_strategy, a) : bo_result' = [delay |-> delay]
    /\ UNCHANGED <<bo_strategy, bo_retry_args, bo_retry>>
    /\ UNCHANGED nonBoVars

\* strategy.should_retry(error_output, return_code)
ShouldRetryCall(error_output, return_code) ==
    /\ bo_retry_args' = [error_output |-> error_output, return_code |-> return_code]
    /\ bo_retry' = ShouldRetry(bo_strategy, error_output, return_code)
    /\ UNCHANGED <<bo_strategy, bo_attempt, bo_result>>
    /\ UNCHANGED nonBoVars

BoNext ==
    \/ \E a \in Attempts : GetDelayCall(a)
    \/ \E error_output \in ErrorOutputs, return_code \in RetryReturnCodes :
          ShouldRetryCall(error_output, return_code)

(***************************************************************************)
(* Calls of ErrorPatternDetector: add_simple_pattern, detect_error_patterns *)
(***************************************************************************)
MaxCustomPatterns == 2

SimplePatterns ==
    { SimplePattern("rate limit", "rate-limit", TRUE),
      SimplePattern("Permission Denied", "custom-permission", TRUE),
      SimplePattern("quota exceeded", "quota", FALSE) }

DetectOutputs ==
    { <<>>, <<"rate limit">>, <<"Permission Denied", "rate limit">>,
      <<"timeout", "Permission Denied">>,
      <<"certificate has expired", "authentication required">>,
      <<"Command Not Found">>, <<"Timed Out">>, <<"Timed Out", "Command Not Found">> }

DetectReturnCodes == {0, 1, 124, 127}

\* ErrorPatternDetector()
DetInit ==
    /\ det_custom = <<>>
    /\ det_args = None
    /\ det_info = None

DetIdle ==
    /\ det_custom = <<>>
    /\ det_args = None
    /\ det_info = None

\* detector.add_simple_pattern(pattern, error_type, message, recoverable)
AddSimplePattern(pattern_set) ==
    /\ Len(det_custom) < MaxCustomPatterns
    /\ det_custom' = Append(det_custom, pattern_set)
    /\ UNCHANGED <<det_args, det_info>>
    /\ UNCHANGED nonDetVars

\* detector.detect_error_patterns(output, return_code)
DetectCall(output, return_code) ==
    /\ det_args' = [custom |-> det_custom, output |-> output,
                    return_code |-> return_code]
    /\ det_info' = DetectErrorPatterns(det_custom, output, return_code)
    /\ UNCHANGED det_custom
    /\ UNCHANGED nonDetVars

DetNext ==
    \/ \E pattern_set \in SimplePatterns : AddSimplePattern(pattern_set)
    \/ \E output \in DetectOutputs, return_code \in DetectReturnCodes :
          DetectCall(output, return_code)

(***************************************************************************)
(* GHClient.check_direct_commits                                            *)
(* The main thread fetches and parses the commits, submits one has_pr call  *)
(* per commit to a ThreadPoolExecutor and takes the futures as they         *)
(* complete.  A pool of w workers runs at most w submitted calls at a time, *)
(* in the order of submission; leaving the "with" block waits for every     *)
(* submitted call.                                                          *)
(***************************************************************************)
\* one line of the commit query's output: a JSON object, or text json.loads rejects
CommitLine(sha) == [json |-> TRUE, sha |-> sha]

NotJsonLine == [json |-> FALSE]

\* "for line in output.strip().split(...)": the lines json.loads accepts
RECURSIVE ParseCommits(_)
ParseCommits(lines) ==
    IF lines = <<>> THEN <<>>
    ELSE IF Head(lines).json THEN <<Head(lines)>> \o ParseCommits(Tail(lines))
    ELSE ParseCommits(Tail(lines))

WorkersPerCommit(max_workers, commits) == Len(commits)

\* "workers = min(max_workers, len(commits))"
Workers(max_workers, commits) == Min(max_workers, Len(commits))

HasPrWithoutShaCheck(commit, reply) ==
    ~(reply.success /\ Strip(reply.output) = <<"0">>)

\* has_pr(commit), reply being what run_command returns for the commit's pulls
HasPr(commit, reply) ==
    IF commit.sha = "" THEN TRUE
    ELSE ~(reply.success /\ Strip(reply.output) = <<"0">>)

Pending == [status |-> "pending"]

Running == [status |-> "running"]

Finished(value) == [status |-> "finished", value |-> value]

Raised == [status |-> "raised"]

IsDone(future) == future.status \in {"finished", "raised"}

InFlight == {i \in DOMAIN dc_futures : dc_futures[i].status = "running"}

\* the call "check_direct_commits(owner, repo, branch, limit, max_workers)"
DCInit ==
    /\ dc_pc = "fetch"
    /\ dc_max_workers \in 0..2
    /\ dc_commits = <<>>
    /\ dc_futures = <<>>
    /\ dc_collected = {}
    /\ dc_direct = <<>>
    /\ dc_ret = None
    /\ dc_replies = <<>>

DCIdle ==
    /\ dc_pc = "idle"
    /\ dc_max_workers = 0
    /\ dc_commits = <<>>
    /\ dc_futures = <<>>
    /\ dc_collected = {}
    /\ dc_direct = <<>>
    /\ dc_ret = None
    /\ dc_replies = <<>>

\* the commit query returns; the commits are parsed and one has_pr call per
\* commit is submitted
DCFetchCommits(success, lines) ==
    /\ dc_pc = "fetch"
    /\ \E commits \in {IF success THEN ParseCommits(lines) ELSE <<>>} :
          /\ dc_commits' = commits
          /\ dc_replies' = [i \in DOMAIN commits |-> None]
          /\ IF success /\ Workers(dc_max_workers, commits) > 0
             THEN /\ dc_futures' = [i \in DOMAIN commits |-> Pending]
                  /\ dc_pc' = "pool"
                  /\ dc_ret' = dc_ret
             ELSE /\ dc_futures' = <<>>
                  /\ dc_pc' = "done"
                  /\ dc_ret' = <<>>
    /\ UNCHANGED <<dc_max_workers, dc_collected, dc_direct>>
    /\ UNCHANGED nonDCVars

\* a worker of the pool takes the next submitted has_pr call
DCWorkerStart(i) ==
    /\ dc_pc \in {"pool", "exit"}
    /\ dc_futures[i] = Pending
    /\ \A j \in 1..(i - 1) : dc_futures[j] # Pending
    /\ Cardinality(InFlight) < Workers(dc_max_workers, dc_commits)
    /\ dc_futures' = [dc_futures EXCEPT ![i] = Running]
    /\ UNCHANGED <<dc_pc, dc_max_workers, dc_commits, dc_collected, dc_direct, dc_ret,
                   dc_replies>>
    /\ UNCHANGED nonDCVars

\* has_pr returns on its worker
DCWorkerReturn(i, reply) ==
    /\ dc_pc \in {"pool", "exit"}
    /\ dc_futures[i] = Running
    /\ dc_futures' = [dc_futures EXCEPT ![i] = Finished(HasPr(dc_commits[i], reply))]
    /\ dc_replies' = [dc_replies EXCEPT ![i] = IF dc_commits[i].sha = "" THEN None
                                               ELSE reply]
    /\ UNCHANGED <<dc_pc, dc_max_workers, dc_commits, dc_collected, dc_direct, dc_ret>>
    /\ UNCHANGED nonDCVars

\* run_command raises inside has_pr (it catches FileNotFoundError only)
DCWorkerRaise(i) ==
    /\ dc_pc \in {"pool", "exit"}
    /\ dc_futures[i] = Running
    /\ dc_commits[i].sha # ""
    /\ dc_futures' = [dc_futures EXCEPT ![i] = Raised]
    /\ UNCHANGED <<dc_pc, dc_max_workers, dc_commits, dc_collected, dc_direct, dc_ret,
                   dc_replies>>
    /\ UNCHANGED nonDCVars

\* one round of "for future in as_completed(...)": future.result() returns the
\* value of has_pr or raises its exception, which leaves the "with" block
DCCollect(i) ==
    /\ dc_pc = "pool"
    /\ i \notin dc_collected
    /\ IsDone(dc_futures[i])
    /\ dc_collected' = dc_collected \cup {i}
    /\ IF dc_futures[i] = Raised
       THEN dc_pc' = "exit" /\ UNCHANGED dc_direct
       ELSE /\ dc_pc' = dc_pc
            /\ dc_direct' = IF ~dc_futures[i].value THEN Append(dc_direct, i)
                             ELSE dc_direct
    /\ UNCHANGED <<dc_max_workers, dc_commits, dc_futures, dc_ret, dc_replies>>
    /\ UNCHANGED nonDCVars

\* every future is taken: the "with" block ends and direct_commits is returned
DCReturn ==
    /\ dc_pc = "pool"
    /\ dc_collected = DOMAIN dc_futures
    /\ dc_pc' = "done"
    /\ dc_ret' = [k \in DOMAIN dc_direct |-> dc_commits[dc_direct[k]]]
    /\ UNCHANGED <<dc_max_workers, dc_commits, dc_futures, dc_collected, dc_direct,
                   dc_replies>>
    /\ UNCHANGED nonDCVars

\* the exception of future.result() leaves check_direct_commits once the pool
\* has shut down, that is once every submitted call has ended
DCRaise ==
    /\ dc_pc = "exit"
    /\ \A i \in DOMAIN dc_futures : IsDone(dc_futures[i])
    /\ dc_pc' = "raised"
    /\ UNCHANGED <<dc_max_workers, dc_commits, dc_futures, dc_collected, dc_direct,
                   dc_ret, dc_replies>>
    /\ UNCHANGED nonDCVars

MaxCommits == 3

CommitLines == { CommitLine("a"), CommitLine("b"), CommitLine(""), NotJsonLine }

CommitOutputs == SeqsUpTo(CommitLines, MaxCommits)

\* what run_command returns for the pulls of one commit
PullReplies ==
    { [success |-> TRUE, output |-> <<"0">>],
      [success |-> TRUE, output |-> <<"1">>],
      [success |-> FALSE, output |-> <<"rate limit">>] }

DCNext ==
    \/ \E success \in BOOLEAN, lines \in CommitOutputs : DCFetchCommits(success, lines)
    \/ \E i \in DOMAIN dc_futures : DCWorkerStart(i)
    \/ \E i \in DOMAIN dc_futures, reply \in PullReplies : DCWorkerReturn(i, reply)
    \/ \E i \in DOMAIN dc_futures : DCWorkerRaise(i)
    \/ \E i \in DOMAIN dc_futures : DCCollect(i)
    \/ DCReturn
    \/ DCRaise

(***************************************************************************)
(* The wait of a rate-limited attempt under the default retry ceilings:     *)
(* "wait_time = self._calculate_delay(attempt)" in GHClient and             *)
(* "wait_time = min(2 ** (attempt + 1), max_wait_per_retry)" in             *)
(* run_gh_command, for the attempts that are retried                        *)
(***************************************************************************)
\* GHClientConfig.max_retries
GHMaxRetries == 25

\* run_gh_command's default max_retries
RunGHMaxRetries == 20

DefaultCeiling(mode) == IF mode \in GHClientModes THEN GHMaxRetries ELSE RunGHMaxRetries

WtInit ==
    /\ wt_mode \in GHClientModes \cup {"run_gh_command"}
    /\ wt_jitter \in IF wt_mode \in GHClientModes THEN {0, GHJitter} ELSE {0}
    /\ wt_retries = DefaultCeiling(wt_mode)
    /\ wt_attempt = 0
    /\ wt_wait = None

WtIdle ==
    /\ wt_mode = "idle"
    /\ wt_jitter = 0
    /\ wt_retries = 0
    /\ wt_attempt = 0
    /\ wt_wait = None

\* attempt a is rate limited and retried: its wait_time is computed
WaitTimeCall(a) ==
    /\ wt_mode # "idle"
    /\ RetriesLeft(a, wt_retries)
    /\ wt_attempt' = a
    /\ \E wait_time \in WaitTimes(wt_mode, wt_jitter, a) :
          wt_wait' = [wait_time |-> wait_time]
    /\ UNCHANGED <<wt_mode, wt_jitter, wt_retries>>
    /\ UNCHANGED nonWtVars

WtNext == \E a \in 0..(GHMaxRetries - 1) : WaitTimeCall(a)

vars == <<execVars, ghVars, ciVars, boVars, detVars, dcVars, wtVars>>

InitExec == ExecInit /\ GHIdle /\ CIIdle /\ BoIdle /\ DetIdle /\ DCIdle /\ WtIdle

SpecExec == InitExec /\ [][ExecNext]_vars

InitGH == GHInit /\ ExecIdle /\ CIIdle /\ BoIdle /\ DetIdle /\ DCIdle /\ WtIdle

SpecGH == InitGH /\ [][GHNext]_vars

InitCI == CIInit /\ ExecIdle /\ GHIdle /\ BoIdle /\ DetIdle /\ DCIdle /\ WtIdle

SpecCI == InitCI /\ [][CINext]_vars

\* ---- resolutions over many check-runs: longer outputs of the check-run query,
\* drawn from check-runs with and without an id whose names hold no keyword
MaxJobs == 7

ManyLineSamples ==
    { CheckRun(Str(<<"docs">>), LineId, Str("completed"), Str("neutral"), Str("url")),
      CheckRun(Str(<<"docs">>), Null, Str("completed"), Str("timed_out"), Null) }

ManyCheckRunOutputs == SeqsUpTo(ManyLineSamples, MaxJobs)

ManyStepSamples == { <<<<"Checkout">>>>, <<<<"Build", "Test">>>> }

CIFetchManyCheckRuns ==
    /\ ci_pc = "check_runs"
    /\ \E ok \in BOOLEAN, lines \in ManyCheckRunOutputs : CICheckRuns(ok, lines)

CIFetchManySteps ==
    /\ ci_pc = "steps"
    /\ \/ CIStepLookup(FALSE, <<>>)
       \/ \E steps \in ManyStepSamples : CIStepLookup(TRUE, steps)

CIManyNext ==
    \/ \E ok \in BOOLEAN, output \in PRViewOutputs : CIPRView(ok, output)
    \/ CIFetchManyCheckRuns
    \/ CIParseLine
    \/ CIAfterParse
    \/ CIFetchManySteps

SpecCIMany == InitCI /\ [][CIManyNext]_vars

InitBo == BoInit /\ ExecIdle /\ GHIdle /\ CIIdle /\ DetIdle /\ DCIdle /\ WtIdle

SpecBo == InitBo /\ [][BoNext]_vars

InitDet == DetInit /\ ExecIdle /\ GHIdle /\ CIIdle /\ BoIdle /\ DCIdle /\ WtIdle

SpecDet == InitDet /\ [][DetNext]_vars

InitDC == DCInit /\ ExecIdle /\ GHIdle /\ CIIdle /\ BoIdle /\ DetIdle /\ WtIdle

SpecDC == InitDC /\ [][DCNext]_vars

InitWt == WtInit /\ ExecIdle /\ GHIdle /\ CIIdle /\ BoIdle /\ DetIdle /\ DCIdle

SpecWt == InitWt /\ [][WtNext]_vars

(***************************************************************************)
(* Properties of execute_command                                            *)
(***************************************************************************)
Returned == pc = "done"

\* every attempt made so far failed with a recoverable classification
AllRecoverableFailures ==
    \A i \in DOMAIN outcomes : ~outcomes[i].success /\ outcomes[i].recoverable

\* every attempt that exited was one the configured strategy agrees to retry
AllAllowed == \A i \in DOMAIN outcomes : outcomes[i].allowed

AllOfKind(kind) == \A i \in DOMAIN outcomes : outcomes[i].kind = kind

\* C1, as stated: with retries = N >= 0 and a process that fails on every attempt
\* with a recoverable classification, the call makes exactly N+1 invocations and
\* returns success = false.
C1_AsStated ==
    (Returned /\ config.retries >= 0 /\ AllRecoverableFailures)
        => (invocations = config.retries + 1 /\ result.success = FALSE)

\* C1, amended: the same, when in addition every failed attempt that exited is
\* one the configured strategy's should_retry accepts (or no strategy is set).
C1_RetriesExhausted ==
    (Returned /\ config.retries >= 0 /\ AllRecoverableFailures /\ AllAllowed)
        => (invocations = config.retries + 1 /\ result.success = FALSE)

C1_Witness ==
    /\ Returned
    /\ config.retries = MaxRetries
    /\ config.retry_strategy.kind = "exponential"
    /\ config.retry_strategy.retry_patterns # <<>>
    /\ AllRecoverableFailures /\ AllAllowed /\ AllOfKind("exit")
    /\ invocations = MaxRetries + 1

C3_NotFoundNeverRetried ==
    (outcomes # <<>> /\ outcomes[1].kind = "notfound")
        => /\ Returned
           /\ invocations = 1
           /\ sleeps = <<>>
           /\ result.success = FALSE
           /\ result.return_code = 127
           /\ result.error_info.error_type = "command-not-found"
           /\ result.error_info.recoverable = FALSE

C3_Witness ==
    /\ Returned
    /\ config.retries = MaxRetries
    /\ config.retry_strategy.kind = "constant"
    /\ outcomes = <<[kind |-> "notfound", success |-> FALSE, recoverable |-> FALSE,
                     allowed |-> TRUE]>>

\* C4: when every attempt times out, the call makes retries + 1 invocations and
\* returns success = false, return_code = 124, error type timeout, recoverable =
\* true; after a timeout on an attempt that is not the last of the budget the
\* call has not returned: it goes on to the next attempt.
C4_TimeoutsExhaustBudget ==
    /\ (Returned /\ outcomes # <<>> /\ AllOfKind("timeout"))
          => /\ invocations = config.retries + 1
             /\ result.success = FALSE
             /\ result.return_code = 124
             /\ result.error_info.error_type = "timeout"
             /\ result.error_info.recoverable = TRUE
    /\ (/\ outcomes # <<>>
        /\ outcomes[Len(outcomes)].kind = "timeout"
        /\ Len(outcomes) < config.retries + 1)
          => pc \in {"sleep", "spawn"}

C4_Witness ==
    /\ Returned
    /\ config.retries = MaxRetries
    /\ AllOfKind("timeout")
    /\ invocations = MaxRetries + 1
    /\ Len(sleeps) = MaxRetries

\* C5, as stated: every returned CommandResult has success = true only with
\* return_code = 0 and error_info.is_error = false, check_return_code = false
\* included.
C5_AsStated ==
    Returned => (result.success
                    => result.return_code = 0 /\ ~result.error_info.is_error)

\* C5, amended: success = true implies return_code = 0, and implies
\* error_info.is_error = false when check_return_code is true.
C5_SuccessImpliesZero ==
    Returned => (result.success
                    => /\ result.return_code = 0
                       /\ config.check_return_code => ~result.error_info.is_error)

C5_Witness ==
    /\ Returned
    /\ result.success
    /\ config.check_return_code
    /\ result.output # <<>>

(***************************************************************************)
(* Properties of the remote client                                          *)
(***************************************************************************)
GHReturned == gh_pc = "done"

\* an invocation that failed with the rate-limit text in its stderr
StderrRateLimited(o) ==
    /\ o.kind = "exit"
    /\ o.return_code # 0
    /\ \E i \in DOMAIN o.stderr : Lower(o.stderr[i]) = "rate limit"

\* an invocation the mode in use is to treat as rate limited
RateLimitedIn(mode, o) ==
    \/ StderrRateLimited(o)
    \/ /\ mode = "run_graphql"
       /\ o.kind = "exit"
       /\ o.return_code # 0
       /\ \E i \in DOMAIN o.stdout : Lower(o.stdout[i]) = "rate_limit"

AllRateLimited == \A i \in DOMAIN gh_outcomes : RateLimitedIn(gh_mode, gh_outcomes[i])

FailsTwiceThenSucceeds ==
    /\ Len(gh_outcomes) = 3
    /\ StderrRateLimited(gh_outcomes[1])
    /\ StderrRateLimited(gh_outcomes[2])
    /\ gh_outcomes[3].kind = "exit"
    /\ gh_outcomes[3].return_code = 0

\* C6: in run_command and run_gh_command, when the command fails twice with
\* "rate limit" in stderr and then exits 0, there are 3 invocations and 2 sleeps,
\* the second sleep is not shorter than the first, and the call returns success
\* with the stdout of the third invocation.
C6_RateLimitRetryThenSuccess ==
    (gh_mode \in {"run_command", "run_gh_command"} /\ FailsTwiceThenSucceeds)
        => /\ GHReturned
           /\ gh_invocations = 3
           /\ Len(gh_sleeps) = 2
           /\ gh_sleeps[2] >= gh_sleeps[1]
           /\ gh_ret = [success |-> TRUE,
                        output |-> OutText(Strip(gh_outcomes[3].stdout))]

C6_Witness ==
    /\ gh_mode = "run_command"
    /\ gh_jitter = GHJitter
    /\ FailsTwiceThenSucceeds
    /\ GHReturned
    /\ gh_ret.output.text # <<>>

\* C7: a call with retry ceiling R makes at most R invocations and at most R-1
\* sleeps (none when R = 0) whatever the outcomes; when every invocation is rate
\* limited, the call has returned failure once R invocations are made, and never
\* before.
C7_BoundedRetries ==
    /\ gh_invocations <= gh_retries
    /\ Len(gh_sleeps) <= Max(gh_retries - 1, 0)
    /\ gh_attempt < Max(gh_retries, 1)
    /\ (AllRateLimited /\ gh_invocations = gh_retries /\ gh_invocations > 0)
          => GHReturned
    /\ (AllRateLimited /\ GHReturned)
          => gh_invocations = gh_retries /\ gh_ret.success = FALSE

C7_Witness ==
    /\ GHReturned
    /\ gh_retries = MaxCeiling
    /\ AllRateLimited
    /\ gh_invocations = MaxCeiling
    /\ Len(gh_sleeps) = MaxCeiling - 1

\* what the call returns for a failure that is not rate limiting: stderr, or
\* stdout in run_graphql
ErrorTextOf(mode, o) ==
    IF mode = "run_graphql" THEN Strip(o.stdout) ELSE Strip(o.stderr)

OtherFailure(mode, o) ==
    o.kind = "exit" /\ o.return_code # 0 /\ ~RateLimitedIn(mode, o)

\* C8: a nonzero exit that is not detected as rate limiting is the last
\* invocation of the call: no sleep follows it and (False, error text) is
\* returned, also after earlier attempts that were rate limited and retried.
C8_OtherFailureEndsCall ==
    \A i \in DOMAIN gh_outcomes :
        OtherFailure(gh_mode, gh_outcomes[i])
            => /\ i = Len(gh_outcomes)
               /\ GHReturned
               /\ Len(gh_sleeps) = i - 1
               /\ gh_ret = [success |-> FALSE,
                            output |-> OutText(ErrorTextOf(gh_mode, gh_outcomes[i]))]

C8_Witness ==
    /\ GHReturned
    /\ Len(gh_outcomes) = 2
    /\ StderrRateLimited(gh_outcomes[1])
    /\ OtherFailure(gh_mode, gh_outcomes[2])
    /\ Len(gh_sleeps) = 1

RetriesExhausted ==
    GHReturned /\ gh_retries >= 1 /\ gh_invocations = gh_retries /\ AllRateLimited

\* C9: when the rate-limit retries are exhausted, run_graphql returns
\* (False, ""), an empty result, and run_command a non-empty error message.
C9_GraphqlExhaustionReturnsEmpty ==
    RetriesExhausted
        => /\ gh_mode = "run_graphql"
                => gh_ret = [success |-> FALSE, output |-> OutText(<<>>)]
           /\ gh_mode = "run_command"
                => gh_ret.success = FALSE /\ gh_ret.output # OutText(<<>>)

(***************************************************************************)
(* Properties of check_post_merge_ci_status                                 *)
(***************************************************************************)
CIReturned == ci_pc = "done"

\* the check-runs among the fetched lines: the lines that are JSON objects
IsCheckRun(line) == line.kind = "check"

NotCompleted(line) == IsCheckRun(line) /\ line.status # Str("completed")

CompletedFailing(line) ==
    /\ IsCheckRun(line)
    /\ line.status = Str("completed")
    /\ line.conclusion \in {Str(x) : x \in FailedConclusions}

\* C10: a resolution that returns after fetching check-runs of which at least one
\* has a status other than completed returns status = pending, however many other
\* check-runs completed with a failing conclusion, before or after it.
C10_PendingTakesPriority ==
    (CIReturned /\ \E i \in DOMAIN ci_lines : NotCompleted(ci_lines[i]))
        => ci_result.status = "pending"

C10_Witness ==
    /\ CIReturned
    /\ Len(ci_lines) = 3
    /\ CompletedFailing(ci_lines[1])
    /\ NotCompleted(ci_lines[2])
    /\ CompletedFailing(ci_lines[3])
    /\ ci_result.status = "pending"

\* the conclusions the resolution counts as failing
FailingConclusionNames == {"failure", "cancelled", "timed_out", "action_required"}

NoneFetchedPending == \A i \in DOMAIN ci_lines : ~NotCompleted(ci_lines[i])

FailingCheckRun(line) ==
    /\ IsCheckRun(line)
    /\ line.status = Str("completed")
    /\ line.conclusion.t = "str"
    /\ line.conclusion.v \in FailingConclusionNames

\* the fetched check-runs that completed with a failing conclusion, in input order
FailingCheckRuns == SelectSeq(ci_lines, FailingCheckRun)

NameOf(line) == IF line.name = Missing THEN <<"unknown check">> ELSE line.name.v
UrlOf(line) == IF line.html_url = Missing THEN Str("") ELSE line.html_url

\* C11: a resolution that returns with no fetched check-run pending has status =
\* failure exactly when some completed check-run has a conclusion among failure,
\* cancelled, timed_out, action_required; failed_checks and failed_check_urls are
\* then the names and the urls of exactly those check-runs, in input order.
C11_FailureIffFailingCheckRun ==
    (CIReturned /\ NoneFetchedPending) =>
        /\ ci_result.status = "failure" <=> FailingCheckRuns # <<>>
        /\ ci_result.status = "failure" =>
              /\ ci_result.failed_checks =
                    [i \in DOMAIN FailingCheckRuns |-> NameOf(FailingCheckRuns[i])]
              /\ ci_result.failed_check_urls =
                    [i \in DOMAIN FailingCheckRuns |-> UrlOf(FailingCheckRuns[i])]
              /\ Len(ci_result.failed_checks) = Len(ci_result.failed_check_urls)

C11_Witness ==
    /\ CIReturned
    /\ NoneFetchedPending
    /\ Len(ci_lines) = 3
    /\ FailingCheckRun(ci_lines[1])
    /\ IsCheckRun(ci_lines[2]) /\ ~FailingCheckRun(ci_lines[2])
    /\ FailingCheckRun(ci_lines[3])
    /\ ci_lines[3].html_url = Missing
    /\ ci_result.status = "failure"
    /\ Len(ci_result.failed_checks) = 2

\* the check-run query was issued and succeeded
CheckRunsFetched == Len(ci_calls) >= 2 /\ ci_calls[2].ok

StepFetches == SelectSeq(ci_calls, LAMBDA call : call.query = "job_steps")

\* C12: a resolution whose check-run query succeeds and yields no check-run
\* returns status = no_ci with empty failed_checks and empty check_names and
\* issues no step query; and a result with status = no_ci has empty check_names.
C12_NoChecksIsNoCI ==
    CIReturned =>
        /\ (CheckRunsFetched /\ \A i \in DOMAIN ci_lines : ~IsCheckRun(ci_lines[i])) =>
              /\ ci_result.status = "no_ci"
              /\ ci_result.failed_checks = <<>>
              /\ ci_result.check_names = <<>>
              /\ StepFetches = <<>>
        /\ ci_result.status = "no_ci" =>
              /\ ci_result.check_names = <<>>
              /\ ci.check_names = <<>>

C12_Witness ==
    /\ CIReturned
    /\ CheckRunsFetched
    /\ Len(ci_lines) = 2
    /\ ci_lines[1].kind = "blank"
    /\ ci_lines[2].kind = "not_json"
    /\ ci_result.status = "no_ci"

\* the PR metadata responses that give no merge-commit SHA: the call fails, its
\* output is not JSON, or the JSON object carries no merge commit with an oid
NoMergeCommit(call) ==
    \/ ~call.ok
    \/ call.output \in {"not_json", "no_merge_commit", "null_merge_commit", "no_oid"}

CIStatuses == {"success", "failure", "pending", "no_ci", "unknown"}

\* C14: for every combination of remote responses the resolution never raises,
\* and the result it returns has one of the five statuses.
C14_NeverRaises ==
    /\ ci_pc # "raised"
    /\ CIReturned => ci_result.status \in CIStatuses

\* the number of check-runs parsed, each of which left one entry in ci_flags
Parsed == Len(ci.check_names)

\* the evidence flags in force when the k-th step query is issued
FlagsBeforeFetch(k) == ci_flags[Parsed + k - 1]

BothFlags == <<TRUE, TRUE>>

\* C15: every step query is issued while one of the two evidence flags is still
\* unset: none is issued when the job names set both flags, and none follows the
\* job whose steps complete them.
C15_StepFetchOnlyWhileEvidenceMissing ==
    /\ \A k \in 1..Len(StepFetches) : FlagsBeforeFetch(k) # BothFlags
    /\ (CIReturned /\ Parsed > 0 /\ ci_flags[Parsed] = BothFlags) => StepFetches = <<>>

C15_Witness ==
    /\ CIReturned
    /\ Len(ci.job_ids) >= 2
    /\ ci_flags[Parsed] = <<FALSE, FALSE>>
    /\ Len(StepFetches) = 1
    /\ ci_result.build_evidence = Evidence("step", <<"Run", "Build">>)
    /\ ci_result.test_evidence = Evidence("step", <<"Run", "Test">>)

C15_WitnessJobNames ==
    /\ CIReturned
    /\ Len(ci.job_ids) >= 1
    /\ ci_flags[Parsed] = BothFlags
    /\ StepFetches = <<>>

\* the lines of the check-runs that carry an id, and the k-th of them
LinesWithId == {i \in DOMAIN ci_lines : IsCheckRun(ci_lines[i]) /\ ci_lines[i].id = LineId}

KthLineWithId(k) ==
    CHOOSE i \in LinesWithId : Cardinality({j \in LinesWithId : j <= i}) = k

\* C16: a resolution issues at most 5 step queries, the k-th of them for the
\* k-th check-run that carries an id, however many check-runs were fetched, and
\* so at most 7 remote queries in all.
C16_AtMostFiveStepFetches ==
    /\ Len(StepFetches) <= 5
    /\ Len(StepFetches) <= Cardinality(LinesWithId)
    /\ \A k \in 1..Len(StepFetches) : StepFetches[k].job_id = KthLineWithId(k)
    /\ Len(ci_calls) <= 7

C16_Witness ==
    /\ CIReturned
    /\ Cardinality(LinesWithId) >= 6
    /\ ci_lines[1].id = Null
    /\ Len(StepFetches) = 5
    /\ StepFetches[5].job_id = 6
    /\ Len(ci_calls) = 7

\* a flag that is set stays set, with the evidence recorded when it was set
EvidenceKept ==
    /\ ci.has_build_check =>
          ci'.has_build_check /\ ci'.build_evidence = ci.build_evidence
    /\ ci.has_test_check =>
          ci'.has_test_check /\ ci'.test_evidence = ci.test_evidence

ReturnsFinalEvidence ==
    CIReturned =>
        /\ ci_result.has_build_check = ci.has_build_check
        /\ ci_result.has_test_check = ci.has_test_check
        /\ ci_result.build_evidence = ci.build_evidence
        /\ ci_result.test_evidence = ci.test_evidence

\* C17: within a resolution each evidence flag only goes from false to true and
\* the evidence recorded when it is set is never replaced (evidence from a job
\* name is not replaced by evidence from a step); the result carries the final
\* flags and evidence.
C17_EvidenceFlagsMonotone == [][EvidenceKept]_vars /\ []ReturnsFinalEvidence

C17_Witness ==
    /\ CIReturned
    /\ Len(StepFetches) = 1
    /\ ci_result.build_evidence = Evidence("job", <<"Build">>)
    /\ ci_result.test_evidence = Evidence("step", <<"Run", "Test">>)

SomeCheckRun == \E i \in DOMAIN ci_lines : IsCheckRun(ci_lines[i])

AllCompletedNoneFailing ==
    \A i \in DOMAIN ci_lines :
        IsCheckRun(ci_lines[i]) =>
            /\ ci_lines[i].status = Str("completed")
            /\ ~FailingCheckRun(ci_lines[i])

\* C18: a resolution that returns after fetching check-runs which are all
\* completed with a conclusion other than failure, cancelled, timed_out and
\* action_required (success, neutral, null, ...) returns status = success with
\* empty failed_checks.
C18_OtherConclusionsAreSuccess ==
    (CIReturned /\ SomeCheckRun /\ AllCompletedNoneFailing) =>
        /\ ci_result.status = "success"
        /\ ci_result.failed_checks = <<>>
        /\ ci_result.failed_check_urls = <<>>

C18_Witness ==
    /\ CIReturned
    /\ Len(ci_lines) = 3
    /\ AllCompletedNoneFailing
    /\ \A i \in 1..3 : IsCheckRun(ci_lines[i])
    /\ ci_lines[1].conclusion = Str("success")
    /\ ci_lines[2].conclusion = Str("neutral")
    /\ ci_lines[3].conclusion = Null
    /\ ci_result.status = "success"

GetDelayCalled == bo_result # None

GetDelayReturned == GetDelayCalled /\ "delay" \in DOMAIN bo_result

\* min(initial_delay * 2^a, max_delay) for the last call
CappedDoubling ==
    Min(bo_strategy.initial_delay * 2^bo_attempt, bo_strategy.max_delay)

ExactWithoutJitter ==
    /\ GetDelayReturned
    /\ bo_result.delay = CappedDoubling
    /\ bo_result.delay <= bo_strategy.max_delay
    /\ \A b \in 0..(bo_attempt - 1) :
          \A earlier \in GetDelay(bo_strategy, b) : earlier <= bo_result.delay

\* C19: with jitter = 0, get_delay(a) returns min(initial_delay * 2^a, max_delay)
\* for every attempt a >= 0; the delay never exceeds max_delay and is at least
\* the delay of every earlier attempt.
C19_ExactWithoutJitter ==
    (GetDelayCalled /\ bo_strategy.jitter = 0) => ExactWithoutJitter

\* the same for the attempts below the limit of the float conversion
ExactWithoutJitterBelowFloatLimit ==
    (GetDelayCalled /\ bo_strategy.jitter = 0 /\ bo_attempt < FloatIntLimit)
        => ExactWithoutJitter

\* C20: with jitter = j > 0 every value get_delay(a) returns lies between
\* base * (1 - j) and base * (1 + j), base = min(initial_delay * 2^a, max_delay),
\* and is not negative, also when j >= 1 (jitter is in percent here).
C20_JitterWithinRange ==
    (GetDelayReturned /\ bo_strategy.jitter > 0) =>
        /\ bo_result.delay >= 0
        /\ 100 * bo_result.delay >= CappedDoubling * (100 - bo_strategy.jitter)
        /\ 100 * bo_result.delay <= CappedDoubling * (100 + bo_strategy.jitter)

C20_Witness ==
    /\ GetDelayReturned
    /\ bo_strategy.jitter = 150
    /\ bo_attempt = 3
    /\ CappedDoubling > 0
    /\ bo_result.delay = 0

C20_WitnessUpperEnd ==
    /\ GetDelayReturned
    /\ bo_strategy.jitter = DefaultJitter
    /\ bo_attempt = MaxAttempt
    /\ bo_result.delay = bo_strategy.max_delay + bo_strategy.max_delay \div 10

C25_WitnessSuccess ==
    /\ Returned
    /\ result.return_code = 0
    /\ result.success
    /\ invocations = 2

ShouldRetryCalled == bo_retry_args # None

\* some pattern of the strategy occurs in the output of the last should_retry
\* call, letter case aside
SomePatternOccurs ==
    \E i \in DOMAIN bo_strategy.retry_patterns :
        \E j \in DOMAIN bo_retry_args.error_output :
            Lower(bo_retry_args.error_output[j]) = Lower(bo_strategy.retry_patterns[i])

\* C21: should_retry(output, code) returns true when retry_patterns is empty, and
\* otherwise true exactly when at least one pattern occurs in the output, letter
\* case aside; the return code has no part in the result.
C21_ShouldRetryIffPatternOccurs ==
    ShouldRetryCalled =>
        (bo_retry <=> (bo_strategy.retry_patterns = <<>> \/ SomePatternOccurs))

C21_Witness ==
    /\ ShouldRetryCalled
    /\ bo_strategy.retry_patterns = <<"quota exceeded", "rate_limit">>
    /\ bo_retry_args.error_output = <<"Permission Denied", "RATE_LIMIT">>
    /\ bo_retry_args.return_code = 0
    /\ bo_retry = TRUE

C21_WitnessNoPatternOccurs ==
    /\ ShouldRetryCalled
    /\ bo_strategy.retry_patterns = <<"Rate Limit">>
    /\ bo_retry_args.error_output = <<"Timed Out">>
    /\ bo_retry_args.return_code = 1
    /\ bo_retry = FALSE

DetectCalled == det_args # None

\* re.search(pattern, output, re.IGNORECASE) finds the pattern
PatternOccurs(pattern, output) ==
    \E j \in DOMAIN output : Lower(output[j]) = Lower(pattern)

SetMatches(pattern_set, output) ==
    \E i \in DOMAIN pattern_set.patterns : PatternOccurs(pattern_set.patterns[i], output)

CustomMatches(i) == SetMatches(det_args.custom[i], det_args.output)

\* the classifications of the built-in sets, in the order of the claim
BuiltInOrder ==
    <<"sso-required", "tls-error", "network-error", "permission-error",
      "service-not-found">>

BuiltInMatches(k) ==
    \E i \in DOMAIN DefaultPatterns :
        /\ DefaultPatterns[i].error_type = BuiltInOrder[k]
        /\ SetMatches(DefaultPatterns[i], det_args.output)

NoCustomMatches == \A i \in DOMAIN det_args.custom : ~CustomMatches(i)

NoBuiltInMatches == \A k \in DOMAIN BuiltInOrder : ~BuiltInMatches(k)

FirstCustomWins ==
    \E i \in DOMAIN det_args.custom :
        /\ CustomMatches(i)
        /\ \A j \in 1..(i - 1) : ~CustomMatches(j)
        /\ det_info = ErrorInfo(det_args.custom[i].error_type, TRUE,
                                det_args.custom[i].recoverable)

FirstBuiltInWins ==
    \E k \in DOMAIN BuiltInOrder :
        /\ BuiltInMatches(k)
        /\ \A j \in 1..(k - 1) : ~BuiltInMatches(j)
        /\ det_info.error_type = BuiltInOrder[k]
        /\ det_info.is_error

HeuristicOrSuccess ==
    /\ det_info.error_type \in {"command-not-found", "timeout", "generic-error", "success"}
    /\ det_info.is_error <=> det_info.error_type # "success"
    /\ det_info.error_type = "success" => det_args.return_code = 0

\* C22: detect_error_patterns returns the classification of the first matching
\* rule in the order: registered custom sets in registration order, then the
\* built-in sets (auth, TLS, network, permission, resource-not-found), then the
\* return-code heuristics, then success; a custom match beats a built-in one.
C22_FirstMatchingRuleWins ==
    DetectCalled =>
        IF ~NoCustomMatches THEN FirstCustomWins
        ELSE IF ~NoBuiltInMatches THEN FirstBuiltInWins
        ELSE HeuristicOrSuccess

C22_Witness ==
    /\ DetectCalled
    /\ Len(det_args.custom) = 2
    /\ det_args.custom[1].error_type = "rate-limit"
    /\ det_args.custom[2].error_type = "custom-permission"
    /\ det_args.output = <<"Permission Denied", "rate limit">>
    /\ BuiltInMatches(4)
    /\ det_info.error_type = "rate-limit"

C22_WitnessBuiltInOrder ==
    /\ DetectCalled
    /\ NoCustomMatches
    /\ det_args.output = <<"certificate has expired", "authentication required">>
    /\ det_info.error_type = "sso-required"

\* the classification the return code alone selects
ByReturnCodeAlone ==
    CASE det_args.return_code = 127 -> "command-not-found"
      [] det_args.return_code = 124 -> "timeout"
      [] det_args.return_code = 0 -> "success"
      [] OTHER -> "generic-error"

\* the statement of C30 as written: with no pattern set matching, the return
\* code alone selects the classification
C30_ByReturnCodeAlone ==
    (DetectCalled /\ NoCustomMatches /\ NoBuiltInMatches) =>
        /\ det_info.error_type = ByReturnCodeAlone
        /\ det_info.is_error <=> det_args.return_code # 0

SaysCommandNotFound == PatternOccurs("command not found", det_args.output)

SaysTimedOut ==
    PatternOccurs("timeout", det_args.output) \/ PatternOccurs("timed out", det_args.output)

\* C30: for an output that matches no custom and no built-in pattern set, the
\* classification is command-not-found for return code 127 or the text "command
\* not found"; otherwise timeout for return code 124 or the text "timed out";
\* otherwise generic-error for a nonzero return code; otherwise success with
\* is_error = false.
C30_ByReturnCodeAndText ==
    (DetectCalled /\ NoCustomMatches /\ NoBuiltInMatches) =>
        /\ det_info.error_type =
              IF det_args.return_code = 127 \/ SaysCommandNotFound
              THEN "command-not-found"
              ELSE IF det_args.return_code = 124 \/ SaysTimedOut THEN "timeout"
              ELSE IF det_args.return_code # 0 THEN "generic-error"
              ELSE "success"
        /\ det_info.is_error <=> det_info.error_type # "success"
        /\ det_info.recoverable <=> det_info.error_type # "command-not-found"

C30_Witness ==
    /\ DetectCalled
    /\ NoCustomMatches
    /\ NoBuiltInMatches
    /\ det_args.output = <<"Timed Out">>
    /\ det_args.return_code = 0
    /\ det_info = ErrorInfo("timeout", TRUE, TRUE)

C30_WitnessByReturnCode ==
    /\ DetectCalled
    /\ NoCustomMatches
    /\ NoBuiltInMatches
    /\ det_args.output = <<>>
    /\ det_args.return_code = 1
    /\ det_info = ErrorInfo("generic-error", TRUE, TRUE)

DCEnded == dc_pc \in {"done", "raised"}

SomeCheckRaised == \E i \in DOMAIN dc_futures : dc_futures[i] = Raised

\* the commits whose check returned "no pull request"
IsDirect(i) == dc_futures[i].status = "finished" /\ ~dc_futures[i].value

\* C23: an exception of one per-commit check is caught for that commit only: the
\* checks of the other commits complete, and their results are collected and
\* returned.
C23_FailureCaughtPerCommit ==
    (DCEnded /\ SomeCheckRaised) =>
        /\ \A i \in DOMAIN dc_futures : IsDone(dc_futures[i])
        /\ dc_pc = "done"
        /\ \A i \in DOMAIN dc_futures :
              IsDirect(i) => \E k \in DOMAIN dc_ret : dc_ret[k] = dc_commits[i]

\* what the code does keep: the checks of the other commits complete before
\* the exception leaves check_direct_commits
SiblingsCompleteBeforeRaise ==
    dc_pc = "raised" =>
        /\ SomeCheckRaised
        /\ \A i \in DOMAIN dc_futures : IsDone(dc_futures[i])
        /\ dc_ret = None

C23_Witness ==
    /\ dc_pc = "raised"
    /\ Len(dc_commits) = 3
    /\ dc_futures[1] = Raised
    /\ IsDirect(2)
    /\ IsDirect(3)
    /\ dc_ret = None

\* C24: never more than min(max_workers, number of fetched commits) per-commit
\* checks are in flight at the same time; with zero fetched commits no worker
\* is started and the empty list is returned.
C24_InFlightBounded ==
    /\ \A w \in 0..(Cardinality(InFlight) - 1) : w < dc_max_workers /\ w < Len(dc_commits)
    /\ (DCEnded /\ dc_commits = <<>>) =>
          /\ dc_futures = <<>>
          /\ dc_pc = "done"
          /\ dc_ret = <<>>

C24_Witness ==
    /\ dc_pc = "pool"
    /\ dc_max_workers = 2
    /\ Len(dc_commits) = 3
    /\ Cardinality(InFlight) = 2
    /\ dc_futures[3] = Pending

C24_WitnessNoCommits ==
    /\ dc_pc = "done"
    /\ dc_max_workers = 2
    /\ dc_commits = <<>>
    /\ dc_ret = <<>>

\* an attempt has just ended that was not the last one the budget allows
AfterNonLastAttempt ==
    /\ invocations >= 1
    /\ \/ pc = "sleep"
       \/ pc = "done" /\ attempt < config.retries

\* should_retry(output, return code) of the configured strategy accepts the
\* result of the attempt that has just ended
LastAttemptAccepted ==
    \/ config.retry_strategy.kind \in {"none", "constant"}
    \/ /\ config.retry_strategy.kind = "exponential"
       /\ \/ config.retry_strategy.retry_patterns = <<>>
          \/ \E i \in DOMAIN config.retry_strategy.retry_patterns :
                PatternOccurs(config.retry_strategy.retry_patterns[i], last_result.output)

RetriedIffAccepted ==
    pc = "sleep" <=>
        /\ ~last_result.success
        /\ last_result.error_info.recoverable
        /\ LastAttemptAccepted

\* C26: after an attempt that is not the last one of the budget, a further
\* attempt is made exactly when the attempt was not successful, its
\* classification is recoverable, and no strategy is configured or should_retry
\* returns true; for exits, timeouts and unexpected exceptions alike.
C26_RetriedIffAccepted == AfterNonLastAttempt => RetriedIffAccepted

\* the same for the attempts whose process exited
ExitRetriedIffAccepted ==
    (AfterNonLastAttempt /\ outcomes[Len(outcomes)].kind = "exit") => RetriedIffAccepted

\* a timeout or an unexpected exception before the end of the budget is always
\* followed by another attempt
TimeoutAndExceptionAlwaysRetried ==
    (AfterNonLastAttempt /\ outcomes[Len(outcomes)].kind \in {"timeout", "exception"})
        => pc = "sleep"

C26_Witness ==
    /\ pc = "sleep"
    /\ invocations = 1
    /\ outcomes[1].kind = "timeout"
    /\ config.retry_strategy.kind = "exponential"
    /\ config.retry_strategy.retry_patterns = <<"Rate Limit">>
    /\ ~LastAttemptAccepted

\* the statement of C27 as written
C27_AsStated ==
    /\ (Returned /\ ~result.success /\ result.error_info.recoverable)
          => invocations = config.retries + 1
    /\ \A i \in DOMAIN outcomes : ~outcomes[i].recoverable => i = Len(outcomes)

\* C27: a returned unsuccessful result whose classification is recoverable
\* means that the full budget of retries + 1 invocations was used, or that the
\* last attempt exited and the configured strategy's should_retry refused it;
\* an attempt classified non-recoverable is the final attempt.
C27_BudgetUsedOrRefused ==
    /\ (Returned /\ ~result.success /\ result.error_info.recoverable)
          => \/ invocations = config.retries + 1
             \/ outcomes[Len(outcomes)].kind = "exit" /\ ~LastAttemptAccepted
    /\ \A i \in DOMAIN outcomes : ~outcomes[i].recoverable => i = Len(outcomes)
    /\ \A i \in DOMAIN outcomes : ~outcomes[i].recoverable => pc = "done"

C27_Witness ==
    /\ Returned
    /\ config.retries = MaxRetries
    /\ invocations = 1
    /\ ~result.success
    /\ result.error_info = ErrorInfo("generic-error", TRUE, TRUE)
    /\ ~LastAttemptAccepted

C27_WitnessNonRecoverable ==
    /\ Returned
    /\ config.retries = MaxRetries
    /\ invocations = 2
    /\ outcomes[1].recoverable
    /\ outcomes[2].kind = "exit"
    /\ ~outcomes[2].recoverable

\* the delays get_delay(k - 1) can return, or the fixed retry_delay
DelaysBeforeAttempt(k) ==
    LET strategy == config.retry_strategy
    IN  IF strategy.kind = "none" THEN {config.retry_delay}
        ELSE IF strategy.kind = "constant" THEN {strategy.delay}
        ELSE LET base == IF strategy.initial_delay * 2^(k - 1) < strategy.max_delay
                         THEN strategy.initial_delay * 2^(k - 1)
                         ELSE strategy.max_delay
                 spread == (base * strategy.jitter) \div 100
             IN  (base - spread)..(base + spread)

\* one sleep before each attempt but the first, for the delay of that attempt
SleepsBetweenAttempts ==
    /\ pc = "sleep" => Len(sleeps) = invocations - 1
    /\ pc = "spawn" => Len(sleeps) = invocations
    /\ (pc = "done" /\ invocations > 0) => Len(sleeps) = invocations - 1
    /\ invocations = 0 => sleeps = <<>>
    /\ \A k \in DOMAIN sleeps : sleeps[k] \in DelaysBeforeAttempt(k)

\* the statement of C28 as written: the number of sleeps is always the number
\* of invocations minus one
C28_AsStated == Returned => Len(sleeps) = invocations - 1

\* C28: execute_command sleeps only between attempts: once before each attempt
\* k >= 1, for get_delay(k - 1) or the fixed retry_delay, never before attempt 0
\* and never after the final attempt; the number of sleeps is the number of
\* invocations minus one when an invocation was made, and zero when none was.
C28_SleepsOnlyBetweenAttempts == SleepsBetweenAttempts

C28_Witness ==
    /\ Returned
    /\ invocations = MaxRetries + 1
    /\ config.retry_strategy.kind = "exponential"
    /\ config.retry_strategy.jitter = 0
    /\ sleeps = <<DefaultInitialDelay, 2 * DefaultInitialDelay>>

C28_WitnessNoInvocation ==
    /\ Returned
    /\ invocations = 0
    /\ sleeps = <<>>

\* C29: an unexpected exception of the spawn gives an unsuccessful result of
\* kind execution-error with recoverable = true, and is followed by another
\* attempt as long as the budget allows one; the call returns a result.
C29_ExceptionsRetriedToBudget ==
    /\ \A i \in DOMAIN outcomes :
          outcomes[i].kind = "exception" =>
              /\ ~outcomes[i].success /\ outcomes[i].recoverable
              /\ (i < config.retries + 1 /\ i = Len(outcomes)) => pc \in {"sleep", "spawn"}
    /\ (Returned /\ invocations > 0 /\ outcomes[Len(outcomes)].kind = "exception") =>
          /\ invocations = config.retries + 1
          /\ ~result.success
          /\ result.return_code = 1
          /\ result.error_info = ErrorInfo("execution-error", TRUE, TRUE)

C29_Witness ==
    /\ Returned
    /\ config.retries = MaxRetries
    /\ config.retry_strategy.kind = "exponential"
    /\ config.retry_strategy.retry_patterns = <<"Rate Limit">>
    /\ invocations = MaxRetries + 1
    /\ AllOfKind("exception")
    /\ result.error_info.error_type = "execution-error"

\* the call went on after invocation i as after a rate-limited one: it slept and
\* retried, or it returned the exhaustion message
TreatedAsRateLimited(i) ==
    \/ Len(gh_sleeps) >= i
    \/ i = Len(gh_outcomes) /\ gh_pc = "sleep"
    \/ i = Len(gh_outcomes) /\ GHReturned /\ gh_ret.output.kind = "rate-limit-exceeded"

HasToken(text, token) == \E j \in DOMAIN text : Lower(text[j]) = token

\* C31: run_command treats a failed invocation as rate limited only when its
\* stderr holds the rate-limit text, letter case aside; rate-limit text in its
\* stdout alone is an immediate failure without retry; run_graphql also treats
\* the rate-limit marker in stdout as rate limiting; an invocation that exits 0
\* is returned as success whatever its stderr holds.
C31_RateLimitDetectedPerMode ==
    \A i \in DOMAIN gh_outcomes :
        gh_outcomes[i].kind = "exit" =>
            IF gh_outcomes[i].return_code = 0
            THEN /\ i = Len(gh_outcomes)
                 /\ GHReturned
                 /\ gh_ret.success
            ELSE TreatedAsRateLimited(i) <=>
                    \/ HasToken(gh_outcomes[i].stderr, "rate limit")
                    \/ /\ gh_mode = "run_graphql"
                       /\ HasToken(gh_outcomes[i].stdout, "rate_limit")

C31_Witness ==
    /\ gh_mode = "run_command"
    /\ gh_retries = MaxCeiling
    /\ GHReturned
    /\ gh_invocations = 1
    /\ gh_outcomes[1].kind = "exit"
    /\ gh_outcomes[1].return_code = 1
    /\ gh_outcomes[1].stdout = <<"Rate Limit">>
    /\ gh_outcomes[1].stderr = <<"HTTP 404">>
    /\ gh_sleeps = <<>>
    /\ gh_ret = [success |-> FALSE, output |-> OutText(<<"HTTP 404">>)]

C31_WitnessGraphqlStdout ==
    /\ gh_mode = "run_graphql"
    /\ gh_invocations = 2
    /\ gh_outcomes[1].stdout = <<"RATE_LIMIT">>
    /\ gh_outcomes[1].stderr = <<>>
    /\ Len(gh_sleeps) = 1

C31_WitnessSuccessDespiteStderr ==
    /\ GHReturned
    /\ gh_invocations = 1
    /\ gh_outcomes[1].kind = "exit"
    /\ gh_outcomes[1].return_code = 0
    /\ gh_outcomes[1].stderr = <<"rate limit">>
    /\ gh_ret.success

WaitComputed == wt_wait # None

\* C32: with the default configuration (initial delay 2 s, max delay 300 s,
\* jitter 10%, ceiling 25) every single rate-limit sleep of the remote client
\* lasts at most 300 seconds, and one call makes at most 25 invocations.
C32_SleepAtMostMaxDelay ==
    (WaitComputed /\ (wt_mode \in GHClientModes => wt_jitter = 10)) =>
        /\ wt_wait.wait_time <= 300 * 1000
        /\ wt_attempt + 2 <= 25

\* what the code keeps: a sleep is at most max_delay plus the jitter, and at
\* most 300 seconds without jitter and in run_gh_command
SleepAtMostMaxDelayPlusJitter ==
    WaitComputed =>
        /\ wt_wait.wait_time <= 330 * 1000
        /\ wt_jitter = 0 => wt_wait.wait_time <= 300 * 1000

C32_Witness ==
    /\ WaitComputed
    /\ wt_mode = "run_command"
    /\ wt_jitter = 10
    /\ wt_attempt = 8
    /\ wt_wait.wait_time = 330 * 1000

\* C33: every invocation of the remote client is time-bounded: when the spawned
\* process never exits, the call still ends and returns a failure.
C33_HangReturnsFailure ==
    \A i \in DOMAIN gh_outcomes :
        gh_outcomes[i].kind = "hang" => (GHReturned /\ ~gh_ret.success)

\* what the code keeps: run_gh_command, whose subprocess.run has a timeout
RunGHCommandHangReturnsFailure ==
    \A i \in DOMAIN gh_outcomes :
        (gh_mode = "run_gh_command" /\ gh_outcomes[i].kind = "hang") =>
            /\ GHReturned
            /\ gh_ret = [success |-> FALSE, output |-> OutMessage("Command timed out")]

C33_Witness ==
    /\ gh_mode = "run_command"
    /\ gh_pc = "blocked"
    /\ gh_invocations = 2
    /\ gh_outcomes[2].kind = "hang"
    /\ gh_ret = None

RECURSIVE SumOfSleeps(_)
SumOfSleeps(n) == IF n = 0 THEN 0 ELSE gh_sleeps[n] + SumOfSleeps(n - 1)

\* the delays slept so far, the one the call is sleeping now included
SleptSoFar ==
    SumOfSleeps(Len(gh_sleeps)) + (IF gh_pc = "sleep" THEN gh_wait_time ELSE 0)

\* the total the exhaustion message shows for a wait of ms milliseconds
ShownTotal(ms) ==
    IF gh_mode = "run_gh_command"
    THEN [mins |-> ms \div (60 * 1000)]
    ELSE [hours |-> ms \div (3600 * 1000),
          mins |-> (ms % (3600 * 1000)) \div (60 * 1000),
          secs |-> (ms % (60 * 1000)) \div 1000]

ExhaustionReported == GHReturned /\ gh_ret.output.kind = "rate-limit-exceeded"

\* C34: during one call the accumulated total wait equals the sum of the delays
\* slept so far (the delay of the sleep in progress included), and the total
\* shown in the exhaustion message is the sum of all delays slept in the call:
\* the final, unretried rate-limited attempt adds nothing.
C34_TotalWaitIsSumOfSleeps ==
    /\ gh_total_wait = SleptSoFar
    /\ ExhaustionReported =>
          /\ gh_ret.output.reported = ShownTotal(SumOfSleeps(Len(gh_sleeps)))
          /\ Len(gh_sleeps) = gh_invocations - 1

C34_Witness ==
    /\ ExhaustionReported
    /\ gh_mode = "run_command"
    /\ gh_retries = MaxCeiling
    /\ gh_sleeps = <<2200, 3600>>
    /\ gh_total_wait = 5800
    /\ gh_ret.output.reported = [hours |-> 0, mins |-> 0, secs |-> 5]

C34_WitnessRunGHCommand ==
    /\ ExhaustionReported
    /\ gh_mode = "run_gh_command"
    /\ gh_retries = MaxCeiling
    /\ gh_sleeps = <<2000, 4000>>
    /\ gh_total_wait = 6000

\* the two wrappers the claim compares, GHClient without jitter
ComparedCall ==
    /\ gh_mode \in {"run_command", "run_gh_command"}
    /\ gh_jitter = 0
    /\ \A i \in DOMAIN gh_outcomes : gh_outcomes[i].kind # "hang"

\* what the outcomes and the ceiling alone determine: the invocations that are
\* followed by a sleep, whether the call is over, and its success flag
RetriedOutcomes ==
    {i \in DOMAIN gh_outcomes : StderrRateLimited(gh_outcomes[i]) /\ i < gh_retries}

CallIsOver ==
    \/ gh_retries = 0
    \/ /\ gh_outcomes # <<>>
       /\ Len(gh_outcomes) \notin RetriedOutcomes

LastExitedZero ==
    /\ gh_outcomes # <<>>
    /\ gh_outcomes[Len(gh_outcomes)].kind = "exit"
    /\ gh_outcomes[Len(gh_outcomes)].return_code = 0

\* C38: for the same sequence of terminating process outcomes and the same
\* ceiling, run_gh_command and GHClient.run_command (initial_delay 2, max_delay
\* 300, jitter 0) make the same number of invocations, sleep the same delays and
\* return the same success flag: in both, each of them is the same function of
\* the outcomes and the ceiling.
C38_WrappersEquivalent ==
    (ComparedCall /\ gh_pc \in {"spawn", "done"}) =>
        /\ gh_invocations = Len(gh_outcomes)
        /\ gh_sleeps = [k \in 1..Cardinality(RetriedOutcomes) |->
                            (IF 2^k < 300 THEN 2^k ELSE 300) * 1000]
        /\ GHReturned <=> CallIsOver
        /\ GHReturned => (gh_ret.success <=> LastExitedZero)

C38_Witness ==
    /\ ComparedCall
    /\ gh_mode = "run_gh_command"
    /\ GHReturned
    /\ gh_retries = MaxCeiling
    /\ gh_invocations = MaxCeiling
    /\ gh_sleeps = <<2000, 4000>>
    /\ gh_ret.success

C38_WitnessRunCommand ==
    /\ ComparedCall
    /\ gh_mode = "run_command"
    /\ GHReturned
    /\ gh_retries = MaxCeiling
    /\ gh_invocations = MaxCeiling
    /\ gh_sleeps = <<2000, 4000>>
    /\ gh_ret.success

\* under the default ceilings too, up to the cap of 300 seconds, both wrappers
\* compute the same wait for the same attempt
WaitsEqualWithoutJitter ==
    (WaitComputed /\ wt_jitter = 0) =>
        wt_wait.wait_time =
            (IF 2^(wt_attempt + 1) < 300 THEN 2^(wt_attempt + 1) ELSE 300) * 1000

\* C35: a resolution that returns after finding at least one check-run, with
\* whatever status, has failed_checks equal to the names, and failed_check_urls
\* equal to the urls, of the completed check-runs whose conclusion is failure,
\* cancelled, timed_out or action_required.
C35_FailedChecksListEveryFailure ==
    (CIReturned /\ CheckRunsFetched /\ SomeCheckRun) =>
        /\ ci_result.failed_checks =
              [i \in DOMAIN FailingCheckRuns |-> NameOf(FailingCheckRuns[i])]
        /\ ci_result.failed_check_urls =
              [i \in DOMAIN FailingCheckRuns |-> UrlOf(FailingCheckRuns[i])]

\* the pending return passes neither failed_checks nor failed_check_urls: the
\* failing completed sibling of a pending check-run is collected and then dropped
C35_Witness ==
    /\ CIReturned
    /\ CheckRunsFetched
    /\ Len(ci_lines) = 2
    /\ FailingCheckRun(ci_lines[1])
    /\ NotCompleted(ci_lines[2])
    /\ ci.failed_checks = <<NameOf(ci_lines[1])>>
    /\ ci_result.status = "pending"
    /\ ci_result.failed_checks = <<>>
    /\ ci_result.failed_check_urls = <<>>

\* outside the pending return the lists are complete
FailedChecksCompleteUnlessPending ==
    (CIReturned /\ CheckRunsFetched /\ SomeCheckRun /\ ci_result.status # "pending") =>
        /\ ci_result.failed_checks =
              [i \in DOMAIN FailingCheckRuns |-> NameOf(FailingCheckRuns[i])]
        /\ ci_result.failed_check_urls =
              [i \in DOMAIN FailingCheckRuns |-> UrlOf(FailingCheckRuns[i])]

\* the fetched check-runs, in input order
CheckRunLines == SelectSeq(ci_lines, IsCheckRun)

\* what the check-run list alone says: pending before failure before success
StatusByCheckRuns ==
    IF \E i \in DOMAIN ci_lines : NotCompleted(ci_lines[i]) THEN "pending"
    ELSE IF FailingCheckRuns # <<>> THEN "failure"
    ELSE "success"

\* the resolution is in its step-level descent
InStepDescent == ci_pc = "steps"

\* a step of the descent leaves everything collected from the check-runs alone
DescentKeepsCheckRunFacts ==
    InStepDescent =>
        /\ ci'.failed_checks = ci.failed_checks
        /\ ci'.failed_check_urls = ci.failed_check_urls
        /\ ci'.check_names = ci.check_names
        /\ ci'.has_pending = ci.has_pending
        /\ ci_pc' \in {"steps", "done"}
        /\ ci_pc' = "done" => ci_result'.status \in {"pending", "failure", "success"}

\* the status, the failed checks and the check names of a returned resolution
\* are what the check-run list says, whatever the step fetches answered
ResultByCheckRunsAlone ==
    (CIReturned /\ CheckRunsFetched /\ SomeCheckRun) =>
        /\ ci_result.status = StatusByCheckRuns
        /\ ci_result.failed_checks =
              IF StatusByCheckRuns = "failure"
              THEN [i \in DOMAIN FailingCheckRuns |-> NameOf(FailingCheckRuns[i])]
              ELSE <<>>
        /\ ci_result.check_names =
              [i \in DOMAIN CheckRunLines |-> NameOf(CheckRunLines[i])]

\* C36: the status, failed_checks and check_names of a resolution are determined
\* by the check-run list alone: every step of the step-level descent, whether its
\* fetch fails, returns no steps or returns steps, changes only the evidence flags
\* and sources, never the failed checks, the check names or the pending flag, and
\* never ends the resolution with status unknown.
C36_StepDescentChangesOnlyEvidence ==
    [][DescentKeepsCheckRunFacts]_vars /\ []ResultByCheckRunsAlone

\* two step fetches that found no evidence (failed or without a matching step),
\* and the resolution still returned failure with its failed check
C36_Witness ==
    /\ CIReturned
    /\ Len(StepFetches) = 2
    /\ ~ci_result.has_build_check
    /\ ~ci_result.has_test_check
    /\ ci_result.status = "failure"
    /\ ci_result.failed_checks # <<>>
    /\ ci_result.status = StatusByCheckRuns

\* a step fetch that found evidence changed the flags and nothing else
C36_WitnessEvidenceFound ==
    /\ CIReturned
    /\ Len(StepFetches) = 1
    /\ Parsed > 0
    /\ Flags(ci_result) # ci_flags[Parsed]
    /\ ci_result.status = "pending"

\* the fetched commits with a sha whose pull-request count was fetched and is 0
AnsweredZero ==
    {i \in DOMAIN dc_commits :
        /\ dc_commits[i].sha # ""
        /\ dc_replies[i] = [success |-> TRUE, output |-> <<"0">>]}

\* how often a commit occurs in the returned list
TimesReturned(commit) == Cardinality({k \in DOMAIN dc_ret : dc_ret[k] = commit})

\* C37: whatever the order in which the pool's workers complete, the list that
\* check_direct_commits returns holds exactly the fetched commits that have a
\* non-empty sha and whose pull-request count query succeeded with the answer 0,
\* each once; a commit whose lookup failed, that has pull requests, or that has
\* no sha is not in it.
C37_ReturnsExactlyAnsweredZero ==
    dc_pc = "done" =>
        /\ Len(dc_ret) = Cardinality(AnsweredZero)
        /\ \A i \in DOMAIN dc_commits :
              TimesReturned(dc_commits[i]) =
                 Cardinality({j \in AnsweredZero : dc_commits[j] = dc_commits[i]})
        /\ \A k \in DOMAIN dc_ret : \E i \in AnsweredZero : dc_ret[k] = dc_commits[i]

\* the third commit's check completed and was collected before the first one's;
\* the lookup of the second failed
C37_Witness ==
    /\ dc_pc = "done"
    /\ dc_max_workers = 2
    /\ Len(dc_commits) = 3
    /\ dc_commits[1].sha = "a"
    /\ dc_commits[3].sha = "b"
    /\ dc_replies[2] = [success |-> FALSE, output |-> <<"rate limit">>]
    /\ dc_direct = <<3, 1>>
    /\ dc_ret = <<dc_commits[3], dc_commits[1]>>

\* a commit without sha between two direct commits is left out
C37_WitnessNoSha ==
    /\ dc_pc = "done"
    /\ Len(dc_commits) = 3
    /\ dc_commits[2].sha = ""
    /\ Len(dc_ret) = 2
    /\ \A k \in DOMAIN dc_ret : dc_ret[k].sha # ""

====
